---------------------------- MODULE Spec2Model ----------------------------
(***************************************************************************)
(* A model of the dispatch scheduling core of daashuai/Pipeline:           *)
(*   - State.apply_dispatch_order                 (src/state.py)           *)
(*   - DispatchOrderQueueManager                  (src/dispatch_order_queue.py) *)
(*   - insert_order_before, insert_order_after    (src/_dispatch_queue.py) *)
(*   - PipelineScheduler.rolling_schedule         (src/framework.py)       *)
(*   - split_order                                (specification, 4.4)     *)
(*   - Dispatcher                                 (src/_dispatcher.py)     *)
(*   - Tank.reserve, CustomerOrder                (src/data_class.py)      *)
(* Quantities are integers (the source uses floats for volumes), except in *)
(* the section on reservations, where differences are rounded.  The        *)
(* orders of the first queue model carry the default times of 0:           *)
(* apply_dispatch_order parses them into locals it never uses, and of the  *)
(* queue operations only validate_queue reads them; the orders of the      *)
(* sections on insertion, on validation and on single applications carry   *)
(* other start and end times.                                              *)
(***************************************************************************)
EXTENDS Integers, Sequences, FiniteSets, TLC

(***************************************************************************)
(* Bounds of the model.                                                    *)
(***************************************************************************)
MaxQueue == 2
MaxCompleted == 2

(***************************************************************************)
(* Small sets the inputs are drawn from.                                   *)
(***************************************************************************)
TankIds == {"T1", "T2"}
OrderIds == {"a", "b"}
UnknownId == "zz"
NoOil == ""
\* DispatchOrder.pipeline_path is Optional[List[str]] with default None; a
\* path is a sequence of pipe ids, and None is this marker sequence.
NonePath == <<"None">>

Max(x, y) == IF x >= y THEN x ELSE y
Min(x, y) == IF x <= y THEN x ELSE y

(***************************************************************************)
(* Tanks of the initial real state: data_class.Tank objects, every one at  *)
(* or above its min_safe_level and at or below its safe_tank_capacity.     *)
(***************************************************************************)
TankRec(inv, oil, minsafe, cap) ==
    [inventory |-> inv, oil_type |-> oil, min_safe_level |-> minsafe,
     safe_tank_capacity |-> cap]

InitTanks ==
    { [t \in TankIds |-> IF t = "T1" THEN TankRec(3, o1, 1, 4)
                                     ELSE TankRec(2, "oilA", 1, 4)] :
        o1 \in {NoOil, "oilA"} }

\* State.__init__: the counters of a fresh State are zero.
NewState(tanks) ==
    [tanks |-> tanks, oil_switch_count |-> 0, total_dispatch_orders |-> 0]

(***************************************************************************)
(* The dispatch orders a caller may hand to add_order: data_class.         *)
(* DispatchOrder objects; pipeline_path is Optional and None by default.   *)
(***************************************************************************)
OrderRec(id, oil, vol, src, tgt, path) ==
    [dispatch_order_id |-> id, oil_type |-> oil, required_volume |-> vol,
     source_tank_id |-> src, target_tank_id |-> tgt, pipeline_path |-> path,
     start_time |-> 0, end_time |-> 0, status |-> "DRAFT"]

\* The order with its start and end times set.
Timed(order, start, end) ==
    [order EXCEPT !.start_time = start, !.end_time = end]

\* For every id: a small order of the tanks' oil, a large order of another
\* oil (more than the source can give and than the target can take), and
\* an order whose path was left at its default, None.
OrderInputs ==
    {OrderRec(id, "oilA", 1, "T1", "T2", <<>>) : id \in OrderIds}
    \cup {OrderRec(id, "oilB", 3, "T1", "T2", <<>>) : id \in OrderIds}
    \cup {OrderRec(id, "oilA", 1, "T1", "T2", NonePath) : id \in OrderIds}


(***************************************************************************)
(* State.apply_dispatch_order (src/state.py).                              *)
(***************************************************************************)

\* order_data.get('pipeline_path', []) is None when the order carries None:
\* `for pipe_id in pipeline_path` then raises TypeError, after the copy was
\* updated and before anything is returned.
ApplyRaises(o) == o.pipeline_path = NonePath

\* state.py 79-80: the source inventory, clamped at min_safe_level.
SourceInventoryNoClamp(tank, vol) == tank.inventory - vol
SourceInventory(tank, vol) == Max(tank.inventory - vol, tank.min_safe_level)

\* state.py 92-93: the source oil type changes only when set and different.
SourceAfter(tank, o) ==
    [tank EXCEPT
        !.inventory = SourceInventory(tank, o.required_volume),
        !.oil_type = IF tank.oil_type # NoOil /\ tank.oil_type # o.oil_type
                     THEN o.oil_type ELSE tank.oil_type]

\* state.py 104, 117: the target inventory grows by the volume, unchecked.
TargetAfterAssign(tank, o) ==
    [tank EXCEPT !.inventory = o.required_volume, !.oil_type = o.oil_type]
TargetAfter(tank, o) ==
    [tank EXCEPT !.inventory = tank.inventory + o.required_volume,
                 !.oil_type = o.oil_type]

\* state.py 152-171, evaluated on the NEW state (state.py 147).
IsOilSwitchNeededInState(state, o) ==
    /\ o.source_tank_id \in DOMAIN state.tanks
    /\ state.tanks[o.source_tank_id].oil_type # NoOil
    /\ state.tanks[o.source_tank_id].oil_type # o.oil_type

\* The state apply_dispatch_order returns when it does not raise.  The
\* receiver `self` is only read; the new State holds deep copies.
apply_dispatch_order(self, o) ==
    LET src == o.source_tank_id
        tgt == o.target_tank_id
        t1 == IF src \in DOMAIN self.tanks
              THEN [self.tanks EXCEPT ![src] = SourceAfter(@, o)]
              ELSE self.tanks
        t2 == IF tgt \in DOMAIN t1
              THEN [t1 EXCEPT ![tgt] = TargetAfter(@, o)]
              ELSE t1
        ns == [self EXCEPT !.tanks = t2,
                           !.total_dispatch_orders = @ + 1]
    IN  IF IsOilSwitchNeededInState(ns, o)
        THEN [ns EXCEPT !.oil_switch_count = @ + 1]
        ELSE ns

\* State.get_conflicts, the tank part: tanks below their minimum.
TankInventoryLow(state) ==
    {t \in DOMAIN state.tanks :
        state.tanks[t].inventory < state.tanks[t].min_safe_level}


(***************************************************************************)
(* DispatchOrderQueueManager (src/dispatch_order_queue.py).                *)
(* States are values: every State the manager stores is a fresh object     *)
(* built from deep copies (see the heap model below), so sharing cannot    *)
(* be observed through the manager.                                        *)
(***************************************************************************)
VARIABLES
    queue,               \* self.queue: the orders, head first
    order_registry,      \* self.order_registry: id -> order
    virtual_state_map,   \* self.virtual_state_map: id -> State
    state_chain,         \* self.state_chain: sequence of <<id, State>>
    real_system_state,   \* self.real_system_state
    last                 \* the last call and what it returned: [op, ret]

qvars == <<queue, order_registry, virtual_state_map, state_chain,
           real_system_state, last>>

\* State objects on a heap (the section on object identity below)
VARIABLES
    heap,                \* address -> Tank or Pipeline object
    states               \* the State objects made so far

hvars == <<heap, states>>

\* framework.PipelineScheduler.rolling_schedule (the scheduler section below)
VARIABLES
    s_tanks,             \* state.tanks: id -> TankState
    s_pipelines,         \* state.pipelines: id -> PipelineState
    s_metrics,           \* the counters of the SchedulingState
    s_orders,            \* order_copies: id -> CustomerOrder
    s_conf,              \* the PipelineScheduler's parameters
    s_cycle,             \* cycles started
    s_pending,           \* the rest of sorted_orders in this cycle
    s_any_scheduled,     \* any_scheduled
    s_attempt,           \* the last schedule_order: rule taken, fallback, outcome
    s_base,              \* base_state and orders, the caller's objects
    s_unscheduled,       \* the second list rolling_schedule returns (ids)
    s_phase,             \* where rolling_schedule is
    s_dispatch           \* all_dispatch_orders

svars == <<s_tanks, s_pipelines, s_metrics, s_orders, s_conf, s_cycle,
           s_pending, s_any_scheduled, s_phase, s_dispatch, s_attempt,
           s_base, s_unscheduled>>

\* State.apply_dispatch_order as a function of its receiver and its argument
\* (the section on single applications below)
VARIABLES
    a_self,              \* the State the method is called on
    a_order,             \* order_data of the last call
    a_result             \* what the last call returned, or that it raised

avars == <<a_self, a_order, a_result>>

\* The batch scheduler's split of a customer order
VARIABLES
    b_order,             \* the CustomerOrder to split
    b_min_batch,         \* the minimum batch size
    b_result             \* the last call and what it returned: [op, ret]

bvars == <<b_order, b_min_batch, b_result>>

\* _dispatcher.Dispatcher (the section on the dispatcher below)
VARIABLES
    d_current_time,      \* self.current_time
    d_all_orders,        \* self.all_orders: id -> order_data
    d_completed_orders,  \* the keys of self.completed_orders
    d_running_orders,    \* the keys of self.running_orders
    d_pending_orders,    \* the keys of self.pending_orders
    d_conflict_orders,   \* the keys of self.conflict_orders
    d_last               \* the last call and what it returned: [op, ret]

dvars == <<d_current_time, d_all_orders, d_completed_orders,
           d_running_orders, d_pending_orders, d_conflict_orders, d_last>>

\* data_class.Tank (the section on reservations below)
VARIABLES
    t_tank,              \* the Tank: inventory, min_safe_level, status
    t_last               \* the last call and what it returned: [op, ret]

tvars == <<t_tank, t_last>>

\* data_class.CustomerOrder and framework.CustomerOrder (the section on
\* undispatched volumes below)
VARIABLES
    c_order,             \* the data_class.CustomerOrder
    c_remaining,         \* the framework.CustomerOrder
    c_last               \* the last call and what it returned: [op, ret]

cvars == <<c_order, c_remaining, c_last>>

ovars == <<dvars, tvars, cvars>>

\* Each part of the program is checked on its own; the variables of the
\* other parts rest meanwhile.
HRest == heap = <<>> /\ states = <<>>
ARest == a_self = <<>> /\ a_order = <<>> /\ a_result = <<>>
BRest ==
    /\ b_order = <<>> /\ b_min_batch = 0
    /\ b_result = [op |-> "rest", ret |-> <<>>]
DRest ==
    /\ d_current_time = 0 /\ d_all_orders = <<>>
    /\ d_completed_orders = {} /\ d_running_orders = {}
    /\ d_pending_orders = {} /\ d_conflict_orders = {}
    /\ d_last = [op |-> "rest", ret |-> <<>>]
TRest == t_tank = <<>> /\ t_last = [op |-> "rest", ret |-> <<>>]
CRest ==
    /\ c_order = <<>> /\ c_remaining = <<>>
    /\ c_last = [op |-> "rest", ret |-> <<>>]
ORest == DRest /\ TRest /\ CRest
SRest ==
    /\ s_tanks = <<>> /\ s_pipelines = <<>> /\ s_metrics = <<>>
    /\ s_orders = <<>> /\ s_conf = <<>> /\ s_cycle = 0 /\ s_pending = <<>>
    /\ s_any_scheduled = FALSE /\ s_phase = "rest" /\ s_dispatch = <<>>
    /\ s_attempt = <<>> /\ s_base = <<>> /\ s_unscheduled = <<>>

Call(op, ret) == [op |-> op, ret |-> ret]

QueueIds(q) == {q[i].dispatch_order_id : i \in DOMAIN q}

\* dict[key] = value
DictSet(d, k, v) == [x \in DOMAIN d \cup {k} |-> IF x = k THEN v ELSE d[x]]
\* del dict[key]
DictDel(d, k) == [x \in DOMAIN d \ {k} |-> d[x]]

\* the loop `if order.dispatch_order_id != dispatch_order_id: append`
RECURSIVE WithoutId(_, _)
WithoutId(q, id) ==
    IF q = <<>> THEN <<>>
    ELSE IF Head(q).dispatch_order_id = id THEN WithoutId(Tail(q), id)
    ELSE <<Head(q)>> \o WithoutId(Tail(q), id)

\* _recalculate_state_chain (302-323): the chain it leaves behind.  The
\* replay stops at the first order whose application raises, and the chain
\* then holds the states of the orders before it.
RECURSIVE ReplayChain(_, _)
ReplayChain(state, q) ==
    IF q = <<>> \/ ApplyRaises(Head(q)) THEN <<>>
    ELSE LET ns == apply_dispatch_order(state, Head(q))
         IN  <<(<<Head(q).dispatch_order_id, ns>>)>> \o ReplayChain(ns, Tail(q))

ReplayRaises(q) == \E i \in DOMAIN q : ApplyRaises(q[i])

\* virtual_state_map as the replay fills it: a later entry of the same id
\* overwrites an earlier one.
ChainMap(chain) ==
    [id \in {chain[i][1] : i \in DOMAIN chain} |->
        LET k == CHOOSE i \in DOMAIN chain :
                   /\ chain[i][1] = id
                   /\ \A j \in DOMAIN chain : chain[j][1] = id => j <= i
        IN  chain[k][2]]

EmptyDict == [x \in {} |-> x]

QInit ==
    /\ queue = <<>>
    /\ order_registry = EmptyDict
    /\ virtual_state_map = EmptyDict
    /\ state_chain = <<>>
    /\ real_system_state \in {NewState(t) : t \in InitTanks}
    /\ last = Call("__init__", "None")


\* _create_virtual_state_for_order (199-216): the state the new order is
\* applied to is the last state of the chain, or the real state.
PrevState == IF state_chain # <<>> THEN state_chain[Len(state_chain)][2]
             ELSE real_system_state

\* add_order (218-239).  The order is queued and registered before its
\* virtual state is created, so a raise of apply_dispatch_order leaves it
\* queued without a state.
add_order(dispatch_order) ==
    /\ UNCHANGED <<hvars, svars, avars, bvars, ovars>>
    /\ LET o == [dispatch_order EXCEPT !.status = "SCHEDULED"]
           id == o.dispatch_order_id
       IN  /\ queue' = Append(queue, o)
           /\ order_registry' = DictSet(order_registry, id, o)
           /\ IF ApplyRaises(o)
              THEN /\ UNCHANGED <<state_chain, virtual_state_map>>
                   /\ last' = Call("add_order", "TypeError")
              ELSE LET ns == apply_dispatch_order(PrevState, o)
                   IN  /\ state_chain' = Append(state_chain, <<id, ns>>)
                       /\ virtual_state_map' = DictSet(virtual_state_map, id, ns)
                       /\ last' = Call("add_order", id)
           /\ UNCHANGED real_system_state

\* add_order while the queue holds fewer than `bound` orders
add_order_below(bound, dispatch_order) ==
    /\ Len(queue) < bound
    /\ add_order(dispatch_order)

\* insert_order_at_position (245-300).  The position is clamped (253), the
\* times are computed, and the DispatchOrder is then built with the keywords
\* priority= and notes= (287-288), which data_class.DispatchOrder (152-166)
\* does not declare: the construction raises TypeError before the queue is
\* touched.
InsertAt(op, position) ==
    LET pos == Max(0, Min(position, Len(queue)))
    IN  /\ pos \in 0..Len(queue)
        /\ last' = Call(op, "TypeError")
        /\ UNCHANGED <<queue, order_registry, virtual_state_map, state_chain,
                       real_system_state>>

insert_order_at_position(position) ==
    /\ UNCHANGED <<hvars, svars, avars, bvars, ovars>>
    /\ InsertAt("insert_order_at_position", position)

\* The tail shared by remove_order (330-346): the queue without the id, the
\* registry and the map without it, and the chain recalculated.
RemoveAndRecalculate(op, id) ==
    LET q == WithoutId(queue, id)
        chain == ReplayChain(real_system_state, q)
    IN  /\ queue' = q
        /\ order_registry' = DictDel(order_registry, id)
        /\ state_chain' = chain
        /\ virtual_state_map' = ChainMap(chain)
        /\ last' = Call(op, IF ReplayRaises(q) THEN "TypeError" ELSE "True")
        /\ UNCHANGED real_system_state

\* remove_order (325-346)
remove_order(id) ==
    /\ UNCHANGED <<hvars, svars, avars, bvars, ovars>>
    /\ IF id \notin DOMAIN order_registry
       THEN /\ last' = Call("remove_order", "False")
            /\ UNCHANGED <<queue, order_registry, virtual_state_map, state_chain,
                           real_system_state>>
       ELSE RemoveAndRecalculate("remove_order", id)

\* cancel_order (437-446): the registered order is marked CANCELLED (443)
\* and removed; the mark is on an order that leaves the manager, and the
\* caller sees it on the order it handed in.
Cancelled(call, order) ==
    [op |-> call.op, ret |-> call.ret,
     status |-> [order EXCEPT !.status = "CANCELLED"].status]

cancel_order(id) ==
    /\ UNCHANGED <<hvars, svars, avars, bvars, ovars>>
    /\ IF id \notin DOMAIN order_registry
       THEN /\ last' = Call("cancel_order", "False")
            /\ UNCHANGED <<queue, order_registry, virtual_state_map, state_chain,
                           real_system_state>>
       ELSE LET q == WithoutId(queue, id)
                chain == ReplayChain(real_system_state, q)
            IN  /\ queue' = q
                /\ order_registry' = DictDel(order_registry, id)
                /\ state_chain' = chain
                /\ virtual_state_map' = ChainMap(chain)
                /\ last' = Cancelled(Call("cancel_order",
                                          IF ReplayRaises(q) THEN "TypeError"
                                          ELSE "True"),
                                     order_registry[id])
                /\ UNCHANGED real_system_state

\* list.insert(i, x) for 0 <= i
ListInsert(l, i, x) ==
    LET k == Min(i, Len(l))
    IN  SubSeq(l, 1, k) \o <<x>> \o SubSeq(l, k + 1, Len(l))
\* list.pop(i) leaves
ListWithout(l, i) == SubSeq(l, 1, i) \o SubSeq(l, i + 2, Len(l))

\* the 0-based index of the first order with the id, or -1
FirstPosition(q, id) ==
    IF id \in QueueIds(q)
    THEN (CHOOSE i \in DOMAIN q :
            /\ q[i].dispatch_order_id = id
            /\ \A j \in DOMAIN q : q[j].dispatch_order_id = id => i <= j) - 1
    ELSE -1

\* move_order (448-478)
move_order(id, new_position) ==
    /\ UNCHANGED <<hvars, svars, avars, bvars, ovars>>
    /\ LET np == Max(0, Min(new_position, Len(queue)))
           cp == FirstPosition(queue, id)
           q == ListInsert(ListWithout(queue, cp), np, queue[cp + 1])
           chain == ReplayChain(real_system_state, q)
       IN  IF id \notin DOMAIN order_registry \/ cp = -1
           THEN /\ last' = Call("move_order", "False")
                /\ UNCHANGED <<queue, order_registry, virtual_state_map,
                               state_chain, real_system_state>>
           ELSE IF cp = np
           THEN /\ last' = Call("move_order", "True")
                /\ UNCHANGED <<queue, order_registry, virtual_state_map,
                               state_chain, real_system_state>>
           ELSE /\ queue' = q
                /\ state_chain' = chain
                /\ virtual_state_map' = ChainMap(chain)
                /\ last' = Call("move_order", IF ReplayRaises(q) THEN "TypeError" ELSE "True")
                /\ UNCHANGED <<order_registry, real_system_state>>


\* The guard of complete_order (423-430): registered, and the queue head.
complete_order_guard(id) ==
    /\ id \in DOMAIN order_registry
    /\ queue # <<>>
    /\ queue[1].dispatch_order_id = id

\* The order update_real_system_state_with_order applies (377): the one the
\* registry holds for the id.
CommittedOrder(id) == order_registry[id]

\* update_real_system_state_with_order (374-397) for a registered id.  The
\* order is applied first: when that raises nothing has changed yet.  The
\* recalculation comes last: when it raises the commit has happened.
Commit(op, id) ==
    LET order == CommittedOrder(id)
        real == apply_dispatch_order(real_system_state, order)
        q == WithoutId(queue, id)
        chain == ReplayChain(real, q)
    IN  IF ApplyRaises(order)
        THEN /\ last' = Call(op, "TypeError")
             /\ UNCHANGED <<queue, order_registry, virtual_state_map,
                            state_chain, real_system_state>>
        ELSE /\ real_system_state' = real
             /\ order_registry' = DictDel(order_registry, id)
             /\ queue' = q
             /\ state_chain' = chain
             /\ virtual_state_map' = ChainMap(chain)
             /\ last' = Call(op, IF ReplayRaises(q) THEN "TypeError"
                                     ELSE IF op = "complete_order" THEN "True"
                                     ELSE "None")

\* complete_order (421-435)
complete_order(id) ==
    /\ UNCHANGED <<hvars, svars, avars, bvars, ovars>>
    /\ real_system_state.total_dispatch_orders < MaxCompleted
    /\ IF complete_order_guard(id)
       THEN Commit("complete_order", id)
       ELSE /\ last' = Call("complete_order", "False")
            /\ UNCHANGED <<queue, order_registry, virtual_state_map,
                           state_chain, real_system_state>>

\* update_real_system_state_with_order (374-397), called directly: it is a
\* method of the public interface (no leading underscore) and does not
\* look at the position of the order.
update_real_system_state_with_order(id) ==
    /\ UNCHANGED <<hvars, svars, avars, bvars, ovars>>
    /\ real_system_state.total_dispatch_orders < MaxCompleted
    /\ IF id \in DOMAIN order_registry
       THEN Commit("update_real_system_state_with_order", id)
       ELSE /\ last' = Call("update_real_system_state_with_order", "None")
            /\ UNCHANGED <<queue, order_registry, virtual_state_map,
                           state_chain, real_system_state>>

\* reschedule_from_current_time (605-623): new times for the orders (not
\* represented), then the chain recalculated.
reschedule_from_current_time ==
    /\ UNCHANGED <<hvars, svars, avars, bvars, ovars>>
    /\ LET chain == ReplayChain(real_system_state, queue)
       IN  /\ state_chain' = chain
           /\ virtual_state_map' = ChainMap(chain)
           /\ last' = Call("reschedule_from_current_time", IF ReplayRaises(queue) THEN "TypeError" ELSE "len")
           /\ UNCHANGED <<queue, order_registry, real_system_state>>

\* clear_completed_orders (649-657): remove_order for every queued order
\* whose status is COMPLETED.  add_order marks every queued order SCHEDULED
\* and no operation of the manager marks one COMPLETED.
CompletedIds(q) == {q[i].dispatch_order_id : i \in {j \in DOMAIN q : q[j].status = "COMPLETED"}}
clear_completed_orders ==
    /\ UNCHANGED <<hvars, svars, avars, bvars, ovars>>
    /\ CompletedIds(queue) = {}
    /\ last' = Call("clear_completed_orders", "None")
    /\ UNCHANGED <<queue, order_registry, virtual_state_map, state_chain,
                   real_system_state>>

\* validate_queue (567-603): read only.  The errors are collected in three
\* passes over the queue: repeated ids (576-580), the times of each order
\* against itself and its predecessor (583-596), and orders whose end has
\* passed while they wait (599-601).  current_time is int(time.time()).
Messages(q, kind, Bad(_)) ==
    LET hit == SelectSeq([i \in 1 .. Len(q) |-> i], Bad)
    IN  [k \in 1 .. Len(hit) |-> <<kind, q[hit[k]].dispatch_order_id>>]

ExpiredAtOrBefore(order, current_time) ==
    order.end_time <= current_time /\ order.status \in {"DRAFT", "SCHEDULED"}

Expired(order, current_time) ==
    order.end_time < current_time /\ order.status \in {"DRAFT", "SCHEDULED"}

TimeErrorsAt(q, i) ==
    LET order == q[i]
        prev_end_time == IF i = 1 THEN 0 ELSE q[i - 1].end_time
        id == order.dispatch_order_id
    IN  (IF order.start_time <= 0
         THEN <<<<"start_invalid", id>>>> ELSE <<>>)
        \o (IF order.end_time <= order.start_time
            THEN <<<<"end_not_after_start", id>>>> ELSE <<>>)
        \o (IF order.start_time < prev_end_time
            THEN <<<<"overlap", id>>>> ELSE <<>>)

RECURSIVE TimeErrors(_, _)
TimeErrors(q, i) ==
    IF i > Len(q) THEN <<>> ELSE TimeErrorsAt(q, i) \o TimeErrors(q, i + 1)

ValidationErrors(q, current_time) ==
    Messages(q, "duplicate",
             LAMBDA i : \E j \in 1 .. (i - 1) :
                           q[j].dispatch_order_id = q[i].dispatch_order_id)
    \o TimeErrors(q, 1)
    \o Messages(q, "expired", LAMBDA i : Expired(q[i], current_time))

validate_queue(current_time) ==
    /\ UNCHANGED <<hvars, svars, avars, bvars, ovars>>
    /\ LET errors == ValidationErrors(queue, current_time)
       IN  last' = [op |-> "validate_queue",
                    ret |-> IF Len(errors) = 0 THEN "True" ELSE "False",
                    errors |-> errors]
    /\ UNCHANGED <<queue, order_registry, virtual_state_map, state_chain,
                   real_system_state>>

\* Readings of the clock, around the times the orders carry.
Nows == {5, 20, 25}

CallIds == OrderIds \cup {UnknownId}
Positions == -1 .. (MaxQueue + 1)

Init == QInit /\ HRest /\ SRest /\ ARest /\ BRest /\ ORest

Next ==
    \/ \E o \in OrderInputs : add_order_below(MaxQueue, o)
    \/ \E p \in Positions : insert_order_at_position(p)
    \/ \E id \in CallIds : remove_order(id)
    \/ \E id \in CallIds : cancel_order(id)
    \/ \E id \in CallIds, p \in Positions : move_order(id, p)
    \/ \E id \in CallIds : complete_order(id)
    \/ \E id \in CallIds : update_real_system_state_with_order(id)
    \/ reschedule_from_current_time
    \/ clear_completed_orders
    \/ \E t \in Nows : validate_queue(t)

vars == <<qvars, hvars, svars, avars, bvars, ovars>>

Spec == Init /\ [][Next]_vars


(***************************************************************************)
(* Claims about the queue manager, checked under Spec.                     *)
(***************************************************************************)
managed == <<queue, order_registry, virtual_state_map, state_chain,
             real_system_state>>

\* the state obtained by applying the first i orders of q, in order
RECURSIVE Fold(_, _, _)
Fold(state, q, i) ==
    IF i = 0 THEN state
    ELSE apply_dispatch_order(Fold(state, q, i - 1), q[i])

IsHead(id) == queue # <<>> /\ queue[1].dispatch_order_id = id

\* C1: the keys of order_registry are exactly the ids in the queue, and no
\* id occurs twice in the queue.
C1_RegistryIsQueueNoDuplicates ==
    /\ DOMAIN order_registry = QueueIds(queue)
    /\ \A i, j \in DOMAIN queue :
          i # j => queue[i].dispatch_order_id # queue[j].dispatch_order_id

\* C2: state_chain lists the queued ids in queue order, and the state kept
\* for the order at index i, in state_chain and in virtual_state_map, is
\* the real state with the orders 1..i applied in order.
C2_ChainIsReplayOfQueue ==
    /\ Len(state_chain) = Len(queue)
    /\ DOMAIN virtual_state_map = QueueIds(queue)
    /\ \A i \in DOMAIN queue :
          /\ state_chain[i][1] = queue[i].dispatch_order_id
          /\ state_chain[i][2] = Fold(real_system_state, queue, i)
          /\ virtual_state_map[queue[i].dispatch_order_id]
                = Fold(real_system_state, queue, i)

\* C3: complete_order(id) returns True exactly when id is the id of the
\* queue head; for any other id it returns False and changes nothing.
C3_CompleteOrderIffHead ==
    [][\A id \in CallIds :
         complete_order(id) =>
            IF IsHead(id) THEN last'.ret = "True"
            ELSE last'.ret = "False" /\ UNCHANGED managed]_vars

\* C4: a successful complete_order(head) replaces the real state by the
\* head order applied to it, removes the id from queue, registry, map and
\* chain, keeps the other orders in order, and leaves the chain of the
\* remaining queue replayed on the new real state.
C4_CompleteCommitsHeadOrder ==
    [][\A id \in CallIds :
         (complete_order(id) /\ last'.ret = "True") =>
            /\ real_system_state'
                 = apply_dispatch_order(real_system_state, queue[1])
            /\ queue' = WithoutId(queue, id)
            /\ id \notin DOMAIN order_registry'
            /\ id \notin DOMAIN virtual_state_map'
            /\ \A i \in DOMAIN state_chain' : state_chain'[i][1] # id
            /\ state_chain' = ReplayChain(real_system_state', queue')
            /\ Len(state_chain') = Len(queue')]_vars

\* C5: a step that changes the real state is a successful complete_order
\* of the order at the head of the queue.
C5_OnlyCompleteHeadChangesReal ==
    [][real_system_state' # real_system_state =>
         /\ last'.op = "complete_order"
         /\ queue # <<>>
         /\ real_system_state'
              = apply_dispatch_order(real_system_state, queue[1])]_vars

\* every State the manager holds
HeldStates ==
    {real_system_state}
    \cup {state_chain[i][2] : i \in DOMAIN state_chain}
    \cup {virtual_state_map[id] : id \in DOMAIN virtual_state_map}

\* C7: in the real state and in every virtual state no tank is below its
\* min_safe_level (get_conflicts reports no tank_inventory_low).
C7_NoTankBelowMinimum == \A st \in HeldStates : TankInventoryLow(st) = {}

\* the order asks for no more than the source holds above its minimum
Fits(state, o) ==
    o.source_tank_id \in DOMAIN state.tanks =>
        o.required_volume <= state.tanks[o.source_tank_id].inventory
                             - state.tanks[o.source_tank_id].min_safe_level

\* C7's case: the last state of the chain comes from an order that asked for
\* more than its source held above the minimum, and the source is at the
\* minimum there.
C7_Witness ==
    /\ last.op = "add_order" /\ last.ret # "TypeError"
    /\ Len(state_chain) >= 1
    /\ LET o == queue[Len(queue)]
           prev == IF Len(state_chain) = 1 THEN real_system_state
                   ELSE state_chain[Len(state_chain) - 1][2]
           new == state_chain[Len(state_chain)][2]
       IN  /\ ~Fits(prev, o)
           /\ new.tanks[o.source_tank_id].inventory
                = new.tanks[o.source_tank_id].min_safe_level

\* C8: an order that asks for more than its source holds above the minimum
\* is not applied, neither to a virtual state by add_order nor to the real
\* state by complete_order.
C8_OverdrawIsRejected ==
    [][/\ \A o \in OrderInputs :
            (add_order(o) /\ Len(state_chain') > Len(state_chain))
                => Fits(PrevState, o)
       /\ \A id \in CallIds :
            (complete_order(id) /\ real_system_state' # real_system_state)
                => Fits(real_system_state, CommittedOrder(id))]_vars

\* C9: in the real state and in every virtual state no tank holds more than
\* its safe capacity.
C9_NoTankAboveSafeCapacity ==
    \A st \in HeldStates : \A t \in DOMAIN st.tanks :
        st.tanks[t].inventory <= st.tanks[t].safe_tank_capacity

\* C13: every application adds exactly 1 to total_dispatch_orders: after
\* every call the virtual state of the order at queue index i (from 0) has
\* the real state's total_dispatch_orders plus i + 1, and the real state's
\* total_dispatch_orders grows by 1 in a successful complete_order and in
\* no other call.
C13_TotalCountsAppliedOrders ==
    [][/\ \A i \in DOMAIN queue' :
            /\ queue'[i].dispatch_order_id \in DOMAIN virtual_state_map'
            /\ virtual_state_map'[queue'[i].dispatch_order_id]
                    .total_dispatch_orders
                 = real_system_state'.total_dispatch_orders + i
       /\ real_system_state'.total_dispatch_orders
            = real_system_state.total_dispatch_orders
              + (IF last'.op = "complete_order" /\ last'.ret = "True"
                 THEN 1 ELSE 0)]_vars

\* the chain holds, for every queued order in queue order, the real state
\* with the orders up to it applied
ChainReplays(chain, real, q) ==
    /\ Len(chain) = Len(q)
    /\ \A i \in DOMAIN q :
          chain[i] = <<q[i].dispatch_order_id, Fold(real, q, i)>>

\* C17: insert_order_at_position accepts every integer position: the queue
\* grows by exactly one, the new order is at index max(0, min(position,
\* len)), the orders that were queued keep their relative order, and the
\* new order is registered with status SCHEDULED.
C17_InsertAtClampedPosition ==
    [][\A p \in Positions :
         insert_order_at_position(p) =>
            LET pos == Max(0, Min(p, Len(queue)))
            IN  /\ Len(queue') = Len(queue) + 1
                /\ ListWithout(queue', pos) = queue
                /\ queue'[pos + 1].status = "SCHEDULED"
                /\ queue'[pos + 1].dispatch_order_id
                     \in DOMAIN order_registry' \ DOMAIN order_registry
                /\ order_registry'[queue'[pos + 1].dispatch_order_id]
                     = queue'[pos + 1]]_vars

\* C19: remove_order(id) for a queued id takes id out of the queue, the
\* registry, the map and the chain, keeps the other orders in their order,
\* leaves the real state alone and the chain equal to the replay of the
\* remaining queue on it; for an id that is not registered it returns False
\* and changes nothing.
C19_RemoveOrderDropsOnlyTheId ==
    [][\A id \in CallIds :
         remove_order(id) =>
            IF id \in DOMAIN order_registry
            THEN /\ \A i \in DOMAIN queue' : queue'[i].dispatch_order_id # id
                 /\ \E keep \in SUBSET DOMAIN queue :
                       /\ \A i \in DOMAIN queue :
                             i \in keep <=> queue[i].dispatch_order_id # id
                       /\ Len(queue') = Cardinality(keep)
                       /\ \A i \in keep :
                             queue'[Cardinality({j \in keep : j <= i})]
                               = queue[i]
                 /\ id \notin DOMAIN order_registry'
                 /\ id \notin DOMAIN virtual_state_map'
                 /\ \A i \in DOMAIN state_chain' : state_chain'[i][1] # id
                 /\ real_system_state' = real_system_state
                 /\ ChainReplays(state_chain', real_system_state', queue')
            ELSE last'.ret = "False" /\ UNCHANGED managed]_vars

\* C20: move_order(id, new_position) only permutes the queue: the registry
\* and the set of queued ids stay, the other orders keep their relative
\* order, the moved order is at the requested position clamped into the
\* index range of the queue, and the chain is the replay of the new queue
\* order; for an unknown id it returns False and changes nothing.
C20_MoveOrderOnlyPermutes ==
    [][\A id \in CallIds, p \in Positions :
         move_order(id, p) =>
            IF id \in DOMAIN order_registry
            THEN LET cp == FirstPosition(queue, id)
                     np == Max(0, Min(p, Len(queue) - 1))
                 IN  /\ order_registry' = order_registry
                     /\ Len(queue') = Len(queue)
                     /\ QueueIds(queue') = QueueIds(queue)
                     /\ queue'[np + 1] = queue[cp + 1]
                     /\ ListWithout(queue', np) = ListWithout(queue, cp)
                     /\ real_system_state' = real_system_state
                     /\ ChainReplays(state_chain', real_system_state', queue')
            ELSE last'.ret = "False" /\ UNCHANGED managed]_vars

\* C21: cancel_order(id) for a queued id marks the order CANCELLED and has
\* the effect of remove_order(id): id is gone from the queue, the registry,
\* the map and the chain, the other orders stay in their order, and the
\* chain is the replay of the remaining queue; for an unknown id it returns
\* False, changes no order's status and changes nothing else.
C21_CancelMarksAndRemoves ==
    [][\A id \in CallIds :
         cancel_order(id) =>
            IF id \in DOMAIN order_registry
            THEN /\ last'.status = "CANCELLED"
                 /\ queue' = WithoutId(queue, id)
                 /\ \A i \in DOMAIN queue' : queue'[i].dispatch_order_id # id
                 /\ id \notin DOMAIN order_registry'
                 /\ id \notin DOMAIN virtual_state_map'
                 /\ \A i \in DOMAIN state_chain' : state_chain'[i][1] # id
                 /\ real_system_state' = real_system_state
                 /\ ChainReplays(state_chain', real_system_state', queue')
            ELSE last'.ret = "False" /\ UNCHANGED managed]_vars

\* C22: add_order(order) puts the order at the tail of the queue and leaves
\* the queued orders as they were, marks it SCHEDULED, registers it, and
\* appends to the chain the state obtained by applying the order to the
\* state of the previous tail, or to the real state when the queue was
\* empty.
C22_AddOrderAppendsOrderAndState ==
    [][\A o \in OrderInputs :
         add_order(o) =>
            LET new == [o EXCEPT !.status = "SCHEDULED"]
                tail == IF queue = <<>> THEN real_system_state
                        ELSE Fold(real_system_state, queue, Len(queue))
            IN  /\ queue' = Append(queue, new)
                /\ o.dispatch_order_id \in DOMAIN order_registry'
                /\ order_registry'[o.dispatch_order_id] = new
                /\ state_chain'
                     = Append(state_chain,
                              <<o.dispatch_order_id,
                                apply_dispatch_order(tail, new)>>)
                /\ virtual_state_map'[o.dispatch_order_id]
                     = apply_dispatch_order(tail, new)]_vars

\* C37: a successful complete_order(head) makes the real state the virtual
\* state the head had before the call, and leaves every remaining order
\* with the virtual state it had before the call.
C37_CommitKeepsThePlan ==
    [][\A id \in CallIds :
         (complete_order(id) /\ last'.ret = "True") =>
            /\ id \in DOMAIN virtual_state_map
            /\ real_system_state' = virtual_state_map[id]
            /\ \A i \in DOMAIN queue' :
                  LET rest == queue'[i].dispatch_order_id
                  IN  /\ rest \in DOMAIN virtual_state_map
                      /\ rest \in DOMAIN virtual_state_map'
                      /\ virtual_state_map'[rest] = virtual_state_map[rest]]_vars


(***************************************************************************)
(* Draining the queue: orders of distinct ids are added, and from the      *)
(* first completion on nothing but the completion of the head is called    *)
(* (get_next_order, 407-419, then complete_order, 421-435).                *)
(***************************************************************************)
add_new_order(dispatch_order) ==
    /\ last.op # "complete_order"
    /\ dispatch_order.dispatch_order_id \notin QueueIds(queue)
    /\ add_order_below(MaxQueue, dispatch_order)

complete_next_order ==
    /\ queue # <<>>
    /\ complete_order(queue[1].dispatch_order_id)

DrainNext ==
    \/ \E o \in OrderInputs : add_new_order(o)
    \/ complete_next_order

DrainInit == QInit /\ HRest /\ SRest /\ ARest /\ BRest /\ ORest

\* The caller completes the head again and again: a call that can change
\* something is made.
SpecDrain == DrainInit /\ [][DrainNext]_vars /\ WF_vars(complete_next_order)

\* C40: when the head is completed again and again, every queued order is
\* in the end committed and gone from the queue; a successful completion
\* commits the order at the head and leaves the orders behind it in order;
\* and once the queue is empty, so are order_registry, virtual_state_map
\* and state_chain.
C40_RepeatedCompletionDrainsQueue ==
    /\ \A id \in OrderIds :
          (id \in QueueIds(queue)) ~> (id \notin QueueIds(queue))
    /\ [][(complete_next_order /\ last'.ret = "True") =>
            /\ real_system_state'
                 = apply_dispatch_order(real_system_state, queue[1])
            /\ queue' = Tail(queue)]_vars
    /\ [](queue = <<>> =>
            /\ DOMAIN order_registry = {}
            /\ DOMAIN virtual_state_map = {}
            /\ state_chain = <<>>)


(***************************************************************************)
(* Insertion into longer queues.  insert_order_before and                  *)
(* insert_order_after are methods of the manager of src/_dispatch_queue.py *)
(* only; the manager of src/dispatch_order_queue.py kept the attributes    *)
(* they read (queue, order_registry) and the method they delegate to       *)
(* (insert_order_at_position), and dropped the two.  In both files every   *)
(* method that builds a DispatchOrder passes priority= and notes=, which   *)
(* data_class.DispatchOrder does not declare; in src/_dispatch_queue.py    *)
(* that includes add_order and the constructor's initial orders, so its    *)
(* own queue never holds an order.  The two methods are taken here on the  *)
(* queue of the manager above, whose add_order receives the order ready    *)
(* made.  Orders carry their start and end times.                          *)
(***************************************************************************)
InsertQueue == 3
InsertIds == {"a", "b", "c"}
InsertCallIds == InsertIds \cup {UnknownId}
InsertPositions == -1 .. (InsertQueue + 1)

InsertOrders ==
    { Timed(OrderRec(id, "oilA", 1, "T1", "T2", <<>>), s, s + 10) :
        id \in InsertIds, s \in {10, 20} }

\* insert_order_before (src/_dispatch_queue.py 304-337)
insert_order_before(reference_order_id) ==
    /\ UNCHANGED <<hvars, svars, avars, bvars, ovars>>
    /\ IF \/ reference_order_id \notin DOMAIN order_registry
          \/ FirstPosition(queue, reference_order_id) = -1
       THEN /\ last' = Call("insert_order_before", "ValueError")
            /\ UNCHANGED <<queue, order_registry, virtual_state_map,
                           state_chain, real_system_state>>
       ELSE InsertAt("insert_order_before",
                     FirstPosition(queue, reference_order_id))

\* insert_order_after (src/_dispatch_queue.py 339-372)
insert_order_after(reference_order_id) ==
    /\ UNCHANGED <<hvars, svars, avars, bvars, ovars>>
    /\ IF \/ reference_order_id \notin DOMAIN order_registry
          \/ FirstPosition(queue, reference_order_id) = -1
       THEN /\ last' = Call("insert_order_after", "ValueError")
            /\ UNCHANGED <<queue, order_registry, virtual_state_map,
                           state_chain, real_system_state>>
       ELSE InsertAt("insert_order_after",
                     FirstPosition(queue, reference_order_id) + 1)

InsertNext ==
    \/ \E o \in InsertOrders : add_order_below(InsertQueue, o)
    \/ \E p \in InsertPositions : insert_order_at_position(p)
    \/ \E ref \in InsertCallIds : insert_order_before(ref)
    \/ \E ref \in InsertCallIds : insert_order_after(ref)
    \/ \E id \in InsertCallIds : remove_order(id)
    \/ \E id \in InsertCallIds : complete_order(id)

InsertInit == QInit /\ HRest /\ SRest /\ ARest /\ BRest /\ ORest

SpecInsert == InsertInit /\ [][InsertNext]_vars

NonDecreasingStarts(q) ==
    \A i, j \in DOMAIN q : i < j => q[i].start_time <= q[j].start_time

\* C16: inserting at position 0, without a start time, into a queue of
\* three orders with non-decreasing start times puts the new order at index
\* 0 and the former head at index 1, keeps the other orders in their order,
\* recomputes every virtual state, and leaves the start times non-decreasing
\* along the new queue.
C16_InsertAtHeadOfThree ==
    [][(/\ insert_order_at_position(0)
        /\ Len(queue) = 3
        /\ Cardinality(QueueIds(queue)) = 3
        /\ NonDecreasingStarts(queue)) =>
            /\ Len(queue') = 4
            /\ Tail(queue') = queue
            /\ queue'[1].dispatch_order_id \notin DOMAIN order_registry
            /\ ChainReplays(state_chain', real_system_state', queue')
            /\ DOMAIN virtual_state_map' = QueueIds(queue')
            /\ NonDecreasingStarts(queue')]_vars

ValidateQueue == 2

ValidateOrders ==
    { Timed(OrderRec(id, "oilA", 1, "T1", "T2", <<>>), t[1], t[2]) :
        id \in OrderIds,
        t \in {<<0, 30>>, <<10, 20>>, <<20, 30>>, <<20, 20>>} }

ValidateInit == QInit /\ HRest /\ SRest /\ ARest /\ BRest /\ ORest

ValidateNext ==
    \/ \E o \in ValidateOrders : add_order_below(ValidateQueue, o)
    \/ \E id \in OrderIds : remove_order(id)
    \/ \E t \in Nows : validate_queue(t)

SpecValidate == ValidateInit /\ [][ValidateNext]_vars

NoDuplicateIds(q) ==
    \A i, j \in DOMAIN q :
        i # j => q[i].dispatch_order_id # q[j].dispatch_order_id

NoOverlapWithPredecessor(q) ==
    \A i \in DOMAIN q : i > 1 => q[i].start_time >= q[i - 1].end_time

default_flow_rate == 500

\* _estimate_duration 64-73: the flow rate is modified by the oil type, in
\* hundredths here
FlowRateModifier(oil_type) ==
    CASE oil_type = "heavy_oil" -> 70
      [] oil_type = "bitumen" -> 60
      [] oil_type \in {"gasoline", "diesel"} -> 110
      [] oil_type = "jetfuel" -> 105
      [] OTHER -> 100

\* _estimate_duration (53-77): seconds, at least a minute for a volume
\* above 0
estimate_duration(volume, oil_type) ==
    IF volume <= 0 THEN 0
    ELSE Max(60, (volume * 3600 * 100)
                   \div (default_flow_rate * FlowRateModifier(oil_type)))

\* reschedule_from_current_time 611-618: the orders with their new times,
\* each starting where the one before it ends
RECURSIVE Rescheduled(_, _)
Rescheduled(q, current_start_time) ==
    IF q = <<>> THEN <<>>
    ELSE LET order == Timed(Head(q), current_start_time,
                            current_start_time
                              + estimate_duration(Head(q).required_volume,
                                                  Head(q).oil_type))
         IN  <<order>> \o Rescheduled(Tail(q), order.end_time)

\* order_registry holds the objects of the queue: the order registered
\* under an id is the order of that id queued last
RegistryOf(q) ==
    [id \in QueueIds(q) |->
        q[CHOOSE i \in DOMAIN q :
            /\ q[i].dispatch_order_id = id
            /\ \A j \in DOMAIN q : q[j].dispatch_order_id = id => j <= i]]

\* reschedule_from_current_time (605-623) with the clock at current_time
reschedule_from_current_time_at(current_time) ==
    /\ UNCHANGED <<hvars, svars, avars, bvars, ovars>>
    /\ LET q == Rescheduled(queue, current_time)
           chain == ReplayChain(real_system_state, q)
       IN  /\ queue' = q
           /\ order_registry' = RegistryOf(q)
           /\ state_chain' = chain
           /\ virtual_state_map' = ChainMap(chain)
           /\ last' = [op |-> "reschedule_from_current_time",
                       ret |-> IF ReplayRaises(q) THEN "TypeError" ELSE "len",
                       at |-> current_time]
           /\ UNCHANGED real_system_state

RescheduleOrders ==
    {OrderRec(id, "oilA", 1, "T1", "T2", <<>>) : id \in OrderIds}
    \cup {OrderRec(id, "heavy_oil", 500, "T1", "T2", <<>>) : id \in OrderIds}
    \cup {OrderRec(id, "oilA", 1, "T1", "T2", NonePath) : id \in OrderIds}

RescheduleInit == QInit /\ HRest /\ SRest /\ ARest /\ BRest /\ ORest

RescheduleNext ==
    \/ \E o \in RescheduleOrders : add_order_below(MaxQueue, o)
    \/ \E t \in Nows : reschedule_from_current_time_at(t)
    \/ \E id \in OrderIds : complete_order(id)

SpecReschedule == RescheduleInit /\ [][RescheduleNext]_vars

IdsOf(q) == [i \in DOMAIN q |-> q[i].dispatch_order_id]

\* C34: reschedule_from_current_time keeps the queue's order and ids; the
\* head starts at the current time, every later order at its predecessor's
\* end, and every order ends its estimated duration after its start; the
\* state chain is the replay of the queue on the real state, which is as
\* it was.
C34_RescheduleChainsTimesAndStates ==
    [][\A t \in Nows :
         reschedule_from_current_time_at(t) =>
            /\ IdsOf(queue') = IdsOf(queue)
            /\ \A i \in DOMAIN queue' :
                  /\ queue'[i].start_time
                       = IF i = 1 THEN t ELSE queue'[i - 1].end_time
                  /\ queue'[i].end_time
                       = queue'[i].start_time
                           + estimate_duration(queue'[i].required_volume,
                                               queue'[i].oil_type)
            /\ ChainReplays(state_chain', real_system_state', queue')
            /\ real_system_state' = real_system_state]_vars


(***************************************************************************)
(* Construction from initial orders (src/dispatch_order_queue.py 18-47,    *)
(* 79-197).  The initial orders are dicts; each is turned into a           *)
(* DispatchOrder, the orders are sorted and their times fixed, and each is *)
(* queued, registered and given a virtual state.                           *)
(***************************************************************************)
MaxInitial == 2

\* data_class.DispatchOrder (151-166): the fields the dataclass declares
DispatchOrderFields ==
    {"dispatch_order_id", "customer_order_id", "site_id", "oil_type",
     "required_volume", "source_tank_id", "target_tank_id", "pipeline_path",
     "start_time", "end_time", "status", "cleaning_required"}

\* _create_dispatch_order_from_dict 148-164: the keywords of its call of
\* DispatchOrder
CreateKeywords == DispatchOrderFields \cup {"priority", "created_at", "notes"}

\* the __init__ of a dataclass raises TypeError on a keyword that is not
\* one of its fields
DispatchOrderRaises == ~(CreateKeywords \subseteq DispatchOrderFields)

\* The dicts a caller may hand to the constructor: with and without a
\* start time, of two priorities, and one whose path is None.
InitialDict(id, vol, path, start, end, priority) ==
    [dispatch_order_id |-> id, oil_type |-> "oilA", required_volume |-> vol,
     source_tank_id |-> "T1", target_tank_id |-> "T2", pipeline_path |-> path,
     start_time |-> start, end_time |-> end, status |-> "DRAFT",
     priority |-> priority]

InitialDicts ==
    {InitialDict(id, 1, <<>>, t[1], t[2], p) :
        id \in OrderIds, t \in {<<0, 0>>, <<10, 20>>, <<30, 100>>},
        p \in {1, 2}}
    \cup {InitialDict(id, 1, NonePath, 0, 0, 1) : id \in OrderIds}

InitialLists ==
    UNION {[1..n -> InitialDicts] : n \in 0..MaxInitial}

\* _create_dispatch_order_from_dict 111-146 with the clock at now: an order
\* of a volume without a start, or without an end after its start, gets
\* the clock as its start (the queue is still empty) and its estimated end
create_dispatch_order_from_dict(order_dict, now) ==
    IF /\ order_dict.required_volume > 0
       /\ \/ order_dict.start_time <= 0
          \/ order_dict.end_time <= order_dict.start_time
    THEN LET start == IF order_dict.start_time <= 0 THEN now
                      ELSE order_dict.start_time
         IN  Timed(order_dict, start,
                   start + estimate_duration(order_dict.required_volume,
                                             order_dict.oil_type))
    ELSE order_dict

\* the sort key of 93-96, (start_time if start_time > 0 else inf,
\* -priority): x sorts strictly before y
KeyBefore(x, y) ==
    \/ x.start_time > 0 /\ (y.start_time <= 0 \/ x.start_time < y.start_time)
    \/ /\ \/ x.start_time <= 0 /\ y.start_time <= 0
          \/ x.start_time > 0 /\ x.start_time = y.start_time
       /\ x.priority > y.priority

\* list.sort is stable: an order goes before the first order it sorts
\* strictly before
RECURSIVE SortedByKey(_)
SortedByKey(orders) ==
    IF orders = <<>> THEN <<>>
    ELSE LET front == SortedByKey(SubSeq(orders, 1, Len(orders) - 1))
             x == orders[Len(orders)]
             later == {i \in DOMAIN front : KeyBefore(x, front[i])}
             k == IF later = {} THEN Len(front) + 1
                  ELSE CHOOSE i \in later : \A j \in later : i <= j
         IN  SubSeq(front, 1, k - 1) \o <<x>> \o SubSeq(front, k, Len(front))

\* _validate_and_fix_schedule 184-197: the orders after the first
RECURSIVE FixLater(_, _)
FixLater(orders, expected_start) ==
    IF orders = <<>> THEN <<>>
    ELSE LET curr == Head(orders)
             start == IF curr.start_time < expected_start
                         \/ curr.start_time <= 0
                      THEN expected_start ELSE curr.start_time
             end == IF curr.end_time <= start /\ curr.required_volume > 0
                    THEN start + estimate_duration(curr.required_volume,
                                                   curr.oil_type)
                    ELSE curr.end_time
         IN  <<Timed(curr, start, end)>> \o FixLater(Tail(orders), end)

\* _validate_and_fix_schedule (166-197) with the clock at current_time
validate_and_fix_schedule(orders, current_time) ==
    IF orders = <<>> THEN <<>>
    ELSE LET first == Head(orders)
             fixed ==
                IF first.start_time <= 0 \/ first.start_time < current_time
                THEN Timed(first, current_time,
                           IF /\ first.end_time <= current_time
                              /\ first.required_volume > 0
                           THEN current_time
                                  + estimate_duration(first.required_volume,
                                                      first.oil_type)
                           ELSE first.end_time)
                ELSE first
         IN  <<fixed>> \o FixLater(Tail(orders), fixed.end_time)

\* the loop of 102-107 stops at the first order whose virtual state cannot
\* be created: that order is queued and registered, the later ones are not
RECURSIVE UpToRaise(_)
UpToRaise(q) ==
    IF q = <<>> THEN <<>>
    ELSE IF ApplyRaises(Head(q)) THEN <<Head(q)>>
    ELSE <<Head(q)>> \o UpToRaise(Tail(q))

\* what __init__ leaves in `last`
Constructed(ret, orders, now) ==
    [op |-> "__init__", ret |-> ret, orders |-> orders, at |-> now]

\* __init__ (18-47) with _initialize_from_orders (79-107), the clock at
\* now.  With an empty list nothing is queued; with any other list the
\* first call of _create_dispatch_order_from_dict raises, and no manager
\* is constructed.
initialize_from_orders(orders, now) ==
    /\ UNCHANGED <<hvars, svars, avars, bvars, ovars>>
    /\ last.op = "__new__"
    /\ UNCHANGED real_system_state
    /\ IF orders = <<>>
       THEN /\ UNCHANGED <<queue, order_registry, virtual_state_map,
                           state_chain>>
            /\ last' = Constructed("None", orders, now)
       ELSE IF DispatchOrderRaises
       THEN /\ UNCHANGED <<queue, order_registry, virtual_state_map,
                           state_chain>>
            /\ last' = Constructed("TypeError", orders, now)
       ELSE LET dispatch_orders ==
                    [i \in DOMAIN orders |->
                        create_dispatch_order_from_dict(orders[i], now)]
                fixed == validate_and_fix_schedule(
                             SortedByKey(dispatch_orders), now)
                q == UpToRaise(fixed)
                chain == ReplayChain(real_system_state, q)
            IN  /\ queue' = q
                /\ order_registry' = RegistryOf(q)
                /\ state_chain' = chain
                /\ virtual_state_map' = ChainMap(chain)
                /\ last' = Constructed(IF ReplayRaises(q) THEN "TypeError"
                                       ELSE "None", orders, now)

\* the manager exists: its construction has returned
IsConstructed ==
    /\ last.op # "__new__"
    /\ ~(last.op = "__init__" /\ last.ret = "TypeError")

\* the fields of 30-44, before the initial orders are looked at
ConstructInit ==
    /\ queue = <<>>
    /\ order_registry = EmptyDict
    /\ virtual_state_map = EmptyDict
    /\ state_chain = <<>>
    /\ real_system_state \in {NewState(t) : t \in InitTanks}
    /\ last = Call("__new__", "None")
    /\ HRest /\ SRest /\ ARest /\ BRest /\ ORest

ConstructNext ==
    \/ \E orders \in InitialLists, now \in Nows :
          initialize_from_orders(orders, now)
    \/ \E o \in OrderInputs : IsConstructed /\ add_order_below(MaxQueue, o)

SpecConstruct == ConstructInit /\ [][ConstructNext]_vars

\* C35: constructing a manager from initial orders returns a manager that
\* holds every initial order, with a virtual state for each; its queue is
\* in ascending order of start time, its head does not start before the
\* construction time, and every later order starts at or after its
\* predecessor's end.
C35_ConstructedQueueIsChained ==
    [][\A orders \in InitialLists, now \in Nows :
         initialize_from_orders(orders, now) =>
            /\ last'.ret = "None"
            /\ QueueIds(queue') = {orders[i].dispatch_order_id :
                                      i \in DOMAIN orders}
            /\ Len(queue') = Len(orders)
            /\ QueueIds(queue') \subseteq DOMAIN virtual_state_map'
            /\ NonDecreasingStarts(queue')
            /\ queue' # <<>> => queue'[1].start_time >= now
            /\ NoOverlapWithPredecessor(queue')]_vars


(***************************************************************************)
(* Object identity (src/state.py).  A State holds references to Tank and   *)
(* Pipeline objects; heap maps an address to the object there, and a State *)
(* maps each tank id and pipe id to an address.  The manager keeps the     *)
(* real state at states[1]; every other State comes from                   *)
(* apply_dispatch_order.                                                   *)
(***************************************************************************)
MaxStates == 3
PipeIds == {"P1"}
TankOrder == <<"T1", "T2">>
PipeOrder == <<"P1">>
NoneOil == "None"

Index(seq, x) == CHOOSE i \in DOMAIN seq : seq[i] = x

\* data_class.Pipeline (216-226) with the attribute deserialize_state sets
PipeRec(oil) == [current_oil |-> oil]

\* copy.deepcopy(obj) as State.__init__ uses it (state.py 22-24): the
\* reference it returns is the address of the copy.
deepcopy_shared(obj, copy) == obj
deepcopy(obj, copy) == copy

\* State.__init__ (9-42): one copy of every tank and pipeline handed in,
\* the copies at the next free addresses; counters at zero.
State__init__(h, tanks, pipelines) ==
    LET n == Len(h)
        nt == Len(TankOrder)
        copies == [i \in 1..(nt + Len(PipeOrder)) |->
                     IF i <= nt THEN h[tanks[TankOrder[i]]]
                     ELSE h[pipelines[PipeOrder[i - nt]]]]
    IN  [heap |-> h \o copies,
         state |->
           [tanks |-> [t \in TankIds |->
                         deepcopy(tanks[t], n + Index(TankOrder, t))],
            pipelines |-> [p \in PipeIds |->
                         deepcopy(pipelines[p], n + nt + Index(PipeOrder, p))],
            oil_switch_count |-> 0,
            total_dispatch_orders |-> 0,
            made_from |-> 0]]

\* what a State holds, read through its references
Value(h, st) ==
    [tanks |-> [t \in TankIds |-> h[st.tanks[t]]],
     oil_switch_count |-> st.oil_switch_count,
     total_dispatch_orders |-> st.total_dispatch_orders]
PipelineValue(h, st) == [p \in PipeIds |-> h[st.pipelines[p]]]

Addresses(st) ==
    {st.tanks[t] : t \in TankIds} \cup {st.pipelines[p] : p \in PipeIds}

HeapOrders ==
    {OrderRec("a", "oilB", v, "T1", "T2", <<>>) : v \in {1, 3}}
    \cup {OrderRec("a", "oilA", 1, "T2", "T1", <<"P1">>),
          OrderRec("a", "oilA", 1, "T1", "T2", NonePath)}

HInit ==
    /\ \E tanks \in InitTanks :
         heap = [i \in 1..(Len(TankOrder) + Len(PipeOrder)) |->
                   IF i <= Len(TankOrder) THEN tanks[TankOrder[i]]
                   ELSE PipeRec(NoneOil)]
    /\ states = <<[tanks |-> [t \in TankIds |-> Index(TankOrder, t)],
                   pipelines |-> [p \in PipeIds |->
                                    Len(TankOrder) + Index(PipeOrder, p)],
                   oil_switch_count |-> 0,
                   total_dispatch_orders |-> 0,
                   made_from |-> 0]>>

\* State.apply_dispatch_order (44-150) on the State states[s]: the new
\* State is built by State.__init__ from the receiver's tanks and pipelines
\* (55-59), the counters are copied (62-64), and the source and the target
\* tank are updated through the NEW state's references (72-117).  When the
\* loop over pipeline_path raises (120), the new State is dropped.
h_apply_dispatch_order(s, o) ==
    LET self == states[s]
        made == State__init__(heap, self.tanks, self.pipelines)
        new == made.state
        src == o.source_tank_id
        tgt == o.target_tank_id
        h1 == IF src \in TankIds
              THEN [made.heap EXCEPT ![new.tanks[src]] = SourceAfter(@, o)]
              ELSE made.heap
        h2 == IF tgt \in TankIds
              THEN [h1 EXCEPT ![new.tanks[tgt]] = TargetAfter(@, o)]
              ELSE h1
        counted == [new EXCEPT
                      !.oil_switch_count = self.oil_switch_count,
                      !.total_dispatch_orders = self.total_dispatch_orders + 1,
                      !.made_from = s]
        result == IF IsOilSwitchNeededInState(Value(h2, counted), o)
                  THEN [counted EXCEPT !.oil_switch_count = @ + 1]
                  ELSE counted
    IN  /\ s \in DOMAIN states
        /\ Len(states) < MaxStates
        /\ IF ApplyRaises(o)
           THEN /\ heap' = SubSeq(h2, 1, Len(heap))
                /\ states' = states
           ELSE /\ heap' = h2
                /\ states' = Append(states, result)
        /\ UNCHANGED <<qvars, svars, avars, bvars, ovars>>

\* State.deserialize_state (377-421) on states[s], with the dictionary
\* serialize_state (317-375) made of states[t]: the tanks and pipelines of
\* the receiver are overwritten in place, the counters are assigned.
h_deserialize_state(s, t) ==
    /\ s \in DOMAIN states /\ t \in DOMAIN states
    /\ heap' = [a \in DOMAIN heap |->
                  IF \E x \in TankIds : states[s].tanks[x] = a
                  THEN LET x == CHOOSE x \in TankIds : states[s].tanks[x] = a
                           from == heap[states[t].tanks[x]]
                       IN  [heap[a] EXCEPT !.oil_type = from.oil_type,
                                           !.inventory = from.inventory]
                  ELSE IF \E y \in PipeIds : states[s].pipelines[y] = a
                  THEN LET y == CHOOSE y \in PipeIds : states[s].pipelines[y] = a
                       IN  [heap[a] EXCEPT !.current_oil =
                               heap[states[t].pipelines[y]].current_oil]
                  ELSE heap[a]]
    /\ states' = [states EXCEPT
                    ![s].oil_switch_count = states[t].oil_switch_count,
                    ![s].total_dispatch_orders = states[t].total_dispatch_orders]
    /\ UNCHANGED <<qvars, svars, avars, bvars, ovars>>

QRest ==
    /\ queue = <<>> /\ order_registry = EmptyDict
    /\ virtual_state_map = EmptyDict /\ state_chain = <<>>
    /\ real_system_state = <<>> /\ last = Call("rest", "None")

HNext ==
    \/ \E s \in 1..MaxStates, o \in HeapOrders : h_apply_dispatch_order(s, o)
    \/ \E s, t \in 1..MaxStates : h_deserialize_state(s, t)

HeapInit == HInit /\ QRest /\ SRest /\ ARest /\ BRest /\ ORest

SpecHeap == HeapInit /\ [][HNext]_vars

\* C10: apply_dispatch_order changes what no existing State holds, its
\* receiver included (tanks, pipelines and counters), and the State it
\* returns has no tank or pipeline object in common with any of them.
C10_ApplyLeavesReceiverAndSharesNothing ==
    [][\A s \in 1..MaxStates, o \in HeapOrders :
         h_apply_dispatch_order(s, o) =>
            /\ \A i \in DOMAIN states :
                 /\ states'[i] = states[i]
                 /\ Value(heap', states'[i]) = Value(heap, states[i])
                 /\ PipelineValue(heap', states'[i])
                      = PipelineValue(heap, states[i])
            /\ Len(states') > Len(states) =>
                 \A i \in DOMAIN states :
                    Addresses(states'[Len(states')]) \cap Addresses(states[i])
                      = {}]_vars

\* C10's case: a State made from another by an order that changed a tank,
\* and a further State made from that one.
C10_Witness ==
    \E i, j \in DOMAIN states :
        /\ states[i].made_from # 0
        /\ states[j].made_from = i
        /\ Value(heap, states[i]).tanks
             # Value(heap, states[states[i].made_from]).tanks
        /\ Value(heap, states[j]).tanks # Value(heap, states[i]).tanks


(***************************************************************************)
(* framework.PipelineScheduler (src/framework.py): rolling_schedule over   *)
(* a SchedulingState.  Quantities are whole tons and times whole seconds;  *)
(* a product with 0.9, 0.8, 0.7, 0.6 or 0.4 is rounded down, which changes *)
(* no comparison for the quantities of SInit (multiples of 5).             *)
(* schedule_order picks one of four rules; the orders of SInit take each   *)
(* of them.  The functions it calls that the repository does not define    *)
(* are modelled from the specification and said so where they stand.       *)
(***************************************************************************)
MaxCycles == 2
Now == 0
S_TankOrder == <<"tank1", "tank4">>
S_PipeIds == {"pipe1", "pipe2", "pipe3"}
S_OrderOrder == <<"order1", "order2">>
DefaultOil == "default_oil"

SeqToSet(seq) == {seq[i] : i \in DOMAIN seq}
TenthsOf(x, k) == (x * k) \div 10

\* tuple comparison of two keys <<a, b>>
KeyLess(k1, k2) == k1[1] < k2[1] \/ (k1[1] = k2[1] /\ k1[2] < k2[2])

\* sorted(seq, key=...): ascending and stable; key maps an element to <<a, b>>
RECURSIVE SortedInsert(_, _, _)
SortedInsert(done, x, key) ==
    IF done = <<>> THEN <<x>>
    ELSE IF KeyLess(key[x], key[Head(done)]) THEN <<x>> \o done
    ELSE <<Head(done)>> \o SortedInsert(Tail(done), x, key)
RECURSIVE sorted(_, _)
sorted(seq, key) ==
    IF seq = <<>> THEN <<>>
    ELSE SortedInsert(sorted(SubSeq(seq, 1, Len(seq) - 1), key),
                      seq[Len(seq)], key)

\* CustomerOrder.is_fully_scheduled (52-54): remaining_quantity <= 0.1
is_fully_scheduled(order) == order.remaining_quantity <= 0

\* PipelineScheduler.calculate_wash_time (273-276), hours
calculate_wash_time == 2

\* PipelineScheduler._get_all_paths (236-244)
get_all_paths(source, target) ==
    IF source = "tank1" /\ target = "tank2"
    THEN << <<"pipe1">>, <<"pipe2", "pipe3">> >>
    ELSE IF source = "tank1" /\ target = "tank3"
    THEN << <<"pipe1", "pipe4">>, <<"pipe2", "pipe5">> >>
    ELSE << <<"pipe1">> >>

\* the end of the interval _check_capacity tests (248-249): the quantity
\* at 10 tons an hour
CheckedEnd(quantity, start_time) == start_time + (quantity * 3600) \div 10

\* PipelineScheduler._check_capacity (246-265)
check_capacity(path, quantity, start_time) ==
    LET end_time == CheckedEnd(quantity, start_time)
    IN  \A i \in DOMAIN path :
          LET pipeline == s_pipelines[path[i]]
          IN  /\ ~(quantity > pipeline.capacity)
              /\ \A k \in DOMAIN pipeline.occupancy_schedule :
                   LET occ == pipeline.occupancy_schedule[k]
                   IN  end_time <= occ.start_time \/ start_time >= occ.end_time

\* PipelineScheduler.calculate_duration (267-271), times 3600 and cut to
\* whole seconds as its callers do
MinCapacity(path) ==
    CHOOSE c \in {s_pipelines[path[i]].capacity : i \in DOMAIN path} :
        \A i \in DOMAIN path : c <= s_pipelines[path[i]].capacity
DurationSeconds(quantity, path) == (quantity * 3600) \div MinCapacity(path)

\* RuleBasedScoring.calculate_score (149-183)
RECURSIVE calculate_score(_, _, _)
calculate_score(path, oil_type, quantity) ==
    IF path = <<>> THEN 0
    ELSE LET pipeline == s_pipelines[Head(path)]
             cleaning == IF pipeline.current_oil = oil_type THEN 100
                         ELSE IF pipeline.current_oil # NoneOil THEN -80
                         ELSE 0
             same == IF pipeline.current_oil = oil_type THEN 50 ELSE 0
             room == IF quantity <= pipeline.capacity THEN 20 ELSE -30
         IN  cleaning + same + room
             + calculate_score(Tail(path), oil_type, quantity)

NoPath == [found |-> FALSE, path |-> <<>>]

\* PipelineScheduler.find_feasible_path (202-234): the first of the paths
\* that pass _check_capacity with the highest score
find_feasible_path(source, target, oil_type, quantity, start_time) ==
    LET scored == SelectSeq(get_all_paths(source, target),
                     LAMBDA path : check_capacity(path, quantity, start_time))
        Score(i) == calculate_score(scored[i], oil_type, quantity)
    IN  IF scored = <<>> THEN NoPath
        ELSE LET best == CHOOSE i \in DOMAIN scored :
                            /\ \A j \in DOMAIN scored : Score(j) <= Score(i)
                            /\ \A j \in DOMAIN scored :
                                 Score(j) = Score(i) => i <= j
             IN  [found |-> TRUE, path |-> scored[best]]

\* PipelineScheduler._find_available_tanks (915-945)
find_available_tanks(order) ==
    LET Candidate(tank_id) ==
            /\ order.oil_type \in s_tanks[tank_id].compatible_oils
            /\ ~(s_tanks[tank_id].current_level - s_tanks[tank_id].safety_min
                   < s_conf.min_batch_size)
        score == [tank_id \in SeqToSet(S_TankOrder) |->
                    (IF s_tanks[tank_id].current_oil = order.oil_type THEN 100
                     ELSE IF s_tanks[tank_id].current_oil = NoneOil THEN 50
                     ELSE 0)
                    + (IF s_tanks[tank_id].location = "station" THEN 20 ELSE 0)]
    IN  sorted(SelectSeq(S_TankOrder, Candidate),
               [tank_id \in SeqToSet(S_TankOrder) |-> <<-score[tank_id], 0>>])

\* PipelineScheduler._is_tank_compatible (838-843)
is_tank_compatible(tank, oil_type) ==
    \/ tank.current_oil = NoneOil
    \/ <<tank.current_oil, oil_type>> \in s_conf.oil_compatibility_matrix

NoOption == [found |-> FALSE]

\* the body of the loop of _apply_deadline_priority_rule (562-604) for one
\* tank: the option it evaluates, if it gets that far
DeadlineOption(order, tank_id) ==
    LET tank == s_tanks[tank_id]
        level == tank.current_level - tank.safety_min
        available_oil == IF tank.current_oil = order.oil_type
                         THEN Min(level, TenthsOf(tank.current_level, 9))
                         ELSE level
        batch_size == Min(Min(available_oil, order.remaining_quantity),
                          s_conf.max_batch_size)
        need_cleaning == tank.current_oil # NoneOil
                         /\ tank.current_oil # order.oil_type
        start == Max(tank.occupied_until, order.time_window[1])
        earliest_start == IF need_cleaning
                          THEN start + calculate_wash_time * 3600
                          ELSE start
        path_result == find_feasible_path(tank_id, order.target_tank_id,
                           order.oil_type, batch_size, earliest_start)
    IN  IF \/ ~is_tank_compatible(tank, order.oil_type)
           \/ available_oil < s_conf.min_batch_size
           \/ ~path_result.found
        THEN NoOption
        ELSE [found |-> TRUE, batch_size |-> batch_size, tank_id |-> tank_id,
              path |-> path_result.path, start_time |-> earliest_start,
              end_time |-> earliest_start
                             + DurationSeconds(batch_size, path_result.path),
              need_cleaning |-> need_cleaning]

\* PipelineScheduler._apply_deadline_priority_rule (548-606): the option
\* that ends first among those that end inside the time window
RECURSIVE DeadlineLoop(_, _, _)
DeadlineLoop(order, tanks, best) ==
    IF tanks = <<>> THEN best
    ELSE LET option == DeadlineOption(order, Head(tanks))
             better == /\ option.found
                       /\ (best.found => option.end_time < best.end_time)
                       /\ option.end_time <= order.time_window[2]
         IN  DeadlineLoop(order, Tail(tanks), IF better THEN option ELSE best)

apply_deadline_priority_rule(order) ==
    LET available_tanks == find_available_tanks(order)
        sorted_tanks == sorted(available_tanks,
                          [tank_id \in SeqToSet(S_TankOrder) |->
                             <<s_tanks[tank_id].occupied_until, 0>>])
    IN  DeadlineLoop(order, sorted_tanks, NoOption)

\* the first option found, in the order the tanks are tried
RECURSIVE FirstFound(_)
FirstFound(options) ==
    IF options = <<>> THEN NoOption
    ELSE IF Head(options).found THEN Head(options)
    ELSE FirstFound(Tail(options))

\* the option of a batch from a tank along the path found, if one was
\* found (665-668, 747-752, 808-813)
OnPathFound(path_result, tank_id, batch_size, earliest_start, need_cleaning) ==
    IF ~path_result.found THEN NoOption
    ELSE [found |-> TRUE, batch_size |-> batch_size, tank_id |-> tank_id,
          path |-> path_result.path, start_time |-> earliest_start,
          end_time |-> earliest_start
                         + DurationSeconds(batch_size, path_result.path),
          need_cleaning |-> need_cleaning]

\* the option a rule evaluates for a tank once the batch size is settled
\* (650-668, 732-752, 793-813): cleaning, start, path and end
PlacedOption(order, tank_id, batch_size) ==
    LET tank == s_tanks[tank_id]
        need_cleaning == tank.current_oil # NoneOil
                         /\ tank.current_oil # order.oil_type
        start == Max(tank.occupied_until, order.time_window[1])
        earliest_start == IF need_cleaning
                          THEN start + calculate_wash_time * 3600
                          ELSE start
    IN  OnPathFound(find_feasible_path(tank_id, order.target_tank_id,
                        order.oil_type, batch_size, earliest_start),
                    tank_id, batch_size, earliest_start, need_cleaning)

\* the option, if it was found and the rule accepts it
Accepted(option, Accepts(_)) ==
    IF option.found /\ Accepts(option) THEN option ELSE NoOption

\* PipelineScheduler._find_compatible_tanks (830-836)
find_compatible_tanks(order) ==
    SelectSeq(S_TankOrder,
        LAMBDA tank_id :
            /\ s_tanks[tank_id].current_oil = order.oil_type
            /\ s_tanks[tank_id].current_level
                 > s_tanks[tank_id].safety_min + s_conf.min_batch_size)

\* PipelineScheduler._oil_compatibility_score (845-849), 0 or 1 with the
\* matrix as a set of pairs
oil_compatibility_score(oil1, oil2) ==
    IF oil1 = oil2 \/ <<oil1, oil2>> \in s_conf.oil_compatibility_matrix
    THEN 1 ELSE 0

\* the body of the loop of _apply_compatibility_priority_rule (631-674):
\* an option that needs no cleaning is taken whenever it ends
CompatibilityOption(order, tank_id) ==
    LET tank == s_tanks[tank_id]
        level == tank.current_level - tank.safety_min
        available_oil == IF tank.current_oil = order.oil_type
                         THEN Min(level, TenthsOf(tank.current_level, 8))
                         ELSE level
        batch_size == Min(Min(TenthsOf(available_oil, 7),
                              TenthsOf(order.remaining_quantity, 5)),
                          s_conf.max_batch_size)
    IN  IF \/ available_oil < s_conf.min_batch_size
           \/ batch_size < s_conf.min_batch_size
        THEN NoOption
        ELSE Accepted(PlacedOption(order, tank_id, batch_size),
                      LAMBDA option :
                          \/ ~option.need_cleaning
                          \/ option.end_time <= order.time_window[2])

\* PipelineScheduler._apply_compatibility_priority_rule (608-676)
apply_compatibility_priority_rule(order) ==
    LET compatible_tanks ==
            sorted(find_compatible_tanks(order),
                   [tank_id \in SeqToSet(S_TankOrder) |->
                      <<s_tanks[tank_id].occupied_until,
                        -s_tanks[tank_id].current_level>>])
        all_available ==
            sorted(find_available_tanks(order),
                   [tank_id \in SeqToSet(S_TankOrder) |->
                      <<-(s_tanks[tank_id].occupied_until
                            + calculate_wash_time * 3600),
                        -oil_compatibility_score(s_tanks[tank_id].current_oil,
                                                 order.oil_type)>>])
        sorted_tanks == IF compatible_tanks # <<>> THEN compatible_tanks
                        ELSE all_available
    IN  FirstFound([i \in DOMAIN sorted_tanks |->
                      CompatibilityOption(order, sorted_tanks[i])])

\* the score of a tank in _apply_resource_balancing_rule (703-712), times
\* 100 * 86400 * capacity; the tanks of SInit have one capacity
BalancingScore(order, tank_id) ==
    LET tank == s_tanks[tank_id]
        available_oil == tank.current_level - tank.safety_min
    IN  40 * (86400 - Min(86400, tank.occupied_until)) * tank.capacity
        + 30 * 86400 * Min(tank.capacity, available_oil)
        + (IF tank.current_oil = order.oil_type THEN 30 ELSE 18)
            * 86400 * tank.capacity

\* the body of the second loop of _apply_resource_balancing_rule (720-758)
BalancingOption(order, tank_id) ==
    LET tank == s_tanks[tank_id]
        available_oil == tank.current_level - tank.safety_min
        batch_size == Min(Min(TenthsOf(available_oil, 6),
                              TenthsOf(order.remaining_quantity, 4)),
                          s_conf.max_batch_size)
    IN  IF batch_size < s_conf.min_batch_size THEN NoOption
        ELSE Accepted(PlacedOption(order, tank_id, batch_size),
                      LAMBDA option :
                          option.end_time <= order.time_window[2])

\* PipelineScheduler._apply_resource_balancing_rule (682-760)
apply_resource_balancing_rule(order) ==
    LET scored == SelectSeq(find_available_tanks(order),
            LAMBDA tank_id :
                /\ is_tank_compatible(s_tanks[tank_id], order.oil_type)
                /\ ~(s_tanks[tank_id].current_level
                       - s_tanks[tank_id].safety_min < s_conf.min_batch_size))
        tank_scores == sorted(scored,
                          [tank_id \in SeqToSet(S_TankOrder) |->
                             <<-BalancingScore(order, tank_id), 0>>])
    IN  FirstFound([i \in DOMAIN tank_scores |->
                      BalancingOption(order, tank_scores[i])])

\* the body of the loop of _apply_processing_time_rule (773-823), with the
\* total time the option is compared by
ProcessingTimeOption(order, tank_id) ==
    LET tank == s_tanks[tank_id]
        available_oil == tank.current_level - tank.safety_min
        batch_size == Min(Min(TenthsOf(available_oil, 8),
                              TenthsOf(order.remaining_quantity, 6)),
                          s_conf.max_batch_size)
    IN  IF \/ ~is_tank_compatible(tank, order.oil_type)
           \/ available_oil < s_conf.min_batch_size
           \/ batch_size < s_conf.min_batch_size
        THEN NoOption
        ELSE PlacedOption(order, tank_id, batch_size)

\* _apply_processing_time_rule 815-823: the option replaces the best so
\* far when its washing and transfer take less and it ends in the window
ShorterOf(order, option, best) ==
    LET TotalTime(o) == (IF o.need_cleaning
                         THEN calculate_wash_time * 3600 ELSE 0)
                        + DurationSeconds(o.batch_size, o.path)
    IN  IF /\ option.found
           /\ (best.found => TotalTime(option) < TotalTime(best))
           /\ option.end_time <= order.time_window[2]
        THEN option ELSE best

RECURSIVE ProcessingTimeLoop(_, _, _)
ProcessingTimeLoop(order, tanks, best) ==
    IF tanks = <<>> THEN best
    ELSE ProcessingTimeLoop(order, Tail(tanks),
             ShorterOf(order, ProcessingTimeOption(order, Head(tanks)), best))

\* PipelineScheduler._apply_processing_time_rule (762-826)
apply_processing_time_rule(order) ==
    ProcessingTimeLoop(order, find_available_tanks(order), NoOption)

\* the source's available oil as determine_batch_size and the fallback
\* count it (292-295, 866-868)
AvailableKeeping20(tank, oil_type) ==
    IF tank.current_oil = oil_type
    THEN Min(tank.current_level - tank.safety_min,
             TenthsOf(tank.current_level, 8))
    ELSE tank.current_level - tank.safety_min

RECURSIVE MaxOver(_, _)
MaxOver(seq, start) ==
    IF seq = <<>> THEN start ELSE MaxOver(Tail(seq), Max(start, Head(seq)))

\* PipelineScheduler.determine_batch_size (278-329)
determine_batch_size(order) ==
    LET base_batch == TenthsOf(order.remaining_quantity,
                               s_conf.max_batch_ratio_tenths)
        available_tanks == find_available_tanks(order)
        max_available ==
            MaxOver([i \in DOMAIN available_tanks |->
                       AvailableKeeping20(s_tanks[available_tanks[i]],
                                          order.oil_type)], 0)
        min_pipeline_capacity ==
            CHOOSE c \in {s_pipelines[p].capacity : p \in S_PipeIds} :
                \A p \in S_PipeIds : c <= s_pipelines[p].capacity
        by_pipeline == Min(Min(base_batch, max_available),
                           min_pipeline_capacity * 4)
        sized == Min(Max(by_pipeline, s_conf.min_batch_size),
                     order.remaining_quantity)
        pressed == IF order.time_window[2] - Now < 6 * 3600
                   THEN Min(order.remaining_quantity, max_available)
                   ELSE sized
    IN  IF order.priority >= 8
        THEN Min(TenthsOf(order.remaining_quantity, 6), max_available)
        ELSE pressed

\* the body of the loop of _fallback_original_scheduling (863-911)
FallbackOption(order, tank_id, batch_size) ==
    LET tank == s_tanks[tank_id]
        need_cleaning == tank.current_oil # NoneOil
                         /\ tank.current_oil # order.oil_type
        start == Max(tank.occupied_until, order.time_window[1])
        earliest_start == IF need_cleaning
                          THEN start + calculate_wash_time * 3600
                          ELSE start
        path_result == find_feasible_path(tank_id, order.target_tank_id,
                           order.oil_type, batch_size, earliest_start)
    IN  IF \/ AvailableKeeping20(tank, order.oil_type) < batch_size
           \/ ~path_result.found
        THEN NoOption
        ELSE [found |-> TRUE, batch_size |-> batch_size, tank_id |-> tank_id,
              path |-> path_result.path, start_time |-> earliest_start,
              end_time |-> earliest_start
                             + DurationSeconds(batch_size, path_result.path),
              need_cleaning |-> need_cleaning]

RECURSIVE FallbackLoop(_, _, _)
FallbackLoop(order, tanks, batch_size) ==
    IF tanks = <<>> THEN NoOption
    ELSE LET option == FallbackOption(order, Head(tanks), batch_size)
         IN  IF option.found THEN option
             ELSE FallbackLoop(order, Tail(tanks), batch_size)

\* PipelineScheduler._fallback_original_scheduling (851-913): the dispatch
\* order it returns, if any.  It does not touch the state or the order.
fallback_original_scheduling(order) ==
    LET batch_size == determine_batch_size(order)
    IN  IF 2 * batch_size < s_conf.min_batch_size THEN NoOption
        ELSE FallbackLoop(order, find_available_tanks(order), batch_size)

\* framework.DispatchOrder (66-84) as schedule_order builds it
DispatchOf(order_id, order, option, status) ==
    [order_id |-> order_id, oil_type |-> order.oil_type,
     quantity |-> option.batch_size, source_tank_id |-> option.tank_id,
     pipeline_path |-> option.path, start_time |-> option.start_time,
     end_time |-> option.end_time, status |-> status]

\* the reservation _update_state_with_order appends (962-966)
Reservation(option, oil_type) ==
    [start_time |-> option.start_time, end_time |-> option.end_time,
     oil_type |-> oil_type, quantity |-> option.batch_size]

\* PipelineScheduler._update_state_with_order (947-966): the tanks after
UpdatedTanks(option, oil_type) ==
    [s_tanks EXCEPT ![option.tank_id] =
        [@ EXCEPT !.current_level = @ - option.batch_size,
                  !.current_oil = oil_type,
                  !.occupied_until = option.end_time,
                  !.last_clean_time = IF option.need_cleaning
                                      THEN option.start_time ELSE @]]

\* PipelineScheduler._update_state_with_order (947-966): the pipelines after
UpdatedPipelines(option, oil_type) ==
    [p \in S_PipeIds |->
        IF p \in SeqToSet(option.path)
        THEN [s_pipelines[p] EXCEPT
                !.current_oil = oil_type,
                !.occupancy_schedule =
                    Append(@, Reservation(option, oil_type))]
        ELSE s_pipelines[p]]

\* schedule_order 494-505: the batch is cut to 70% when the option ends
\* after the window and the cut batch is no less than the minimum
Reduced(order, option) ==
    LET reduced_batch == TenthsOf(option.batch_size, 7)
    IN  IF option.end_time > order.time_window[2]
           /\ reduced_batch >= s_conf.min_batch_size
        THEN [option EXCEPT
                !.batch_size = reduced_batch,
                !.end_time = option.start_time
                               + DurationSeconds(reduced_batch, option.path)]
        ELSE option

\* estimate_processing_time is called (459) and defined nowhere in the
\* repository; it stands here as the remaining quantity at ten tons an hour.
estimate_processing_time(order) == (order.remaining_quantity * 3600) \div 10

\* schedule_order 455-471: the urgency is above 0.85, or the priority above
\* 7: rule 1 (deadline priority) is taken
TakesDeadlineRule(order) ==
    LET time_until_deadline == order.time_window[2] - Now
        processing_estimate == estimate_processing_time(order)
    IN  \/ time_until_deadline <= 0
        \/ 100 * processing_estimate > 85 * Max(time_until_deadline, 1)
        \/ order.priority > 7

\* _has_compatible_tanks is called (473) and defined nowhere in the
\* repository; it stands here as "compatible tanks exist", the tanks being
\* those rule 2 looks for first.
has_compatible_tanks(order) == find_compatible_tanks(order) # <<>>

\* calculate_resource_utilization is called on the SchedulingState (478),
\* which does not define it; it stands here as the mean over the tanks of
\* level / capacity, kept as the fraction num / den.
RECURSIVE SumOfRatios(_)
SumOfRatios(tank_ids) ==
    IF tank_ids = <<>> THEN [num |-> 0, den |-> 1]
    ELSE LET rest == SumOfRatios(Tail(tank_ids))
             tank == s_tanks[Head(tank_ids)]
         IN  [num |-> rest.num * tank.capacity + tank.current_level * rest.den,
              den |-> rest.den * tank.capacity]

calculate_resource_utilization ==
    LET sum == SumOfRatios(S_TankOrder)
    IN  [num |-> sum.num, den |-> sum.den * Len(S_TankOrder)]

\* schedule_order 468-487: the rule the attempt takes
SelectedRuleLoadFirst(order) ==
    LET utilization == calculate_resource_utilization
    IN  IF TakesDeadlineRule(order) THEN "deadline"
        ELSE IF 10 * utilization.num > 8 * utilization.den
        THEN "resource_balancing"
        ELSE IF order.oil_type = "" \/ has_compatible_tanks(order)
        THEN "compatibility"
        ELSE "processing_time"

SelectedRule(order) ==
    LET utilization == calculate_resource_utilization
    IN  IF TakesDeadlineRule(order) THEN "deadline"
        ELSE IF order.oil_type = "" \/ has_compatible_tanks(order)
        THEN "compatibility"
        ELSE IF 10 * utilization.num > 8 * utilization.den
        THEN "resource_balancing"
        ELSE "processing_time"

Attempt(order_id, rule, fallback, placed) ==
    [order_id |-> order_id, rule |-> rule, fallback |-> fallback,
     placed |-> placed]

\* schedule_order 468-487: the rule selected is applied
AppliedRule(selected, order) ==
    IF selected = "deadline" THEN apply_deadline_priority_rule(order)
    ELSE IF selected = "compatibility"
    THEN apply_compatibility_priority_rule(order)
    ELSE IF selected = "resource_balancing"
    THEN apply_resource_balancing_rule(order)
    ELSE apply_processing_time_rule(order)

\* schedule_order 489-544 with what the rule returned and what the
\* fallback returns when it is called
Place(order_id, order, selected, rule, back) ==
    LET option == Reduced(order, rule)
    IN  IF ~rule.found \/ 2 * rule.batch_size < s_conf.min_batch_size
        THEN /\ s_dispatch' = IF back.found
                              THEN Append(s_dispatch,
                                     DispatchOf(order_id, order, back, "DRAFT"))
                              ELSE s_dispatch
             /\ s_any_scheduled' = (s_any_scheduled \/ back.found)
             /\ s_attempt' = Attempt(order_id, selected, TRUE, back.found)
             /\ UNCHANGED <<s_tanks, s_pipelines, s_metrics, s_orders>>
        ELSE IF \/ 2 * option.batch_size < s_conf.min_batch_size
                \/ option.end_time > order.time_window[2]
        THEN /\ s_attempt' = Attempt(order_id, selected, FALSE, FALSE)
             /\ UNCHANGED <<s_tanks, s_pipelines, s_metrics, s_orders,
                            s_dispatch, s_any_scheduled>>
        ELSE /\ s_tanks' = UpdatedTanks(option, order.oil_type)
             /\ s_pipelines' = UpdatedPipelines(option, order.oil_type)
             /\ s_metrics' =
                  [s_metrics EXCEPT
                     !.high_priority_satisfied =
                         IF order.priority >= 7 THEN @ + 1 ELSE @,
                     !.oil_switch_count =
                         IF option.need_cleaning THEN @ + 1 ELSE @,
                     !.total_dispatch_orders = @ + 1]
             /\ s_orders' =
                  [s_orders EXCEPT
                     ![order_id].remaining_quantity =
                         Max(@ - option.batch_size, 0),
                     ![order_id].fulfillment_history =
                         Append(@, <<option.batch_size, option.end_time>>)]
             /\ s_dispatch' = Append(s_dispatch,
                                DispatchOf(order_id, order, option, "DRAFT"))
             /\ s_any_scheduled' = TRUE
             /\ s_attempt' = Attempt(order_id, selected, FALSE, TRUE)

\* PipelineScheduler.schedule_order (444-544) for the order at the head of
\* s_pending, as rolling_schedule calls it (1008-1012)
schedule_order(order_id) ==
    /\ ~is_fully_scheduled(s_orders[order_id])
    /\ Place(order_id, s_orders[order_id],
             SelectedRule(s_orders[order_id]),
             AppliedRule(SelectedRule(s_orders[order_id]), s_orders[order_id]),
             fallback_original_scheduling(s_orders[order_id]))

\* rolling_schedule 976-980: the pass works on deepcopy(base_state) and on a
\* deepcopy of every order, so what it writes to the objects it works on
\* leaves the caller's objects as they are.
deepcopy_aliased(base, working) == working

deepcopy_apart(base, working) == base

\* rolling_schedule 986-995: a cycle starts with the orders not fully
\* scheduled, highest (priority, remaining_quantity) first
SortedOrders ==
    sorted(SelectSeq(S_OrderOrder,
                     LAMBDA id : ~is_fully_scheduled(s_orders[id])),
           [id \in SeqToSet(S_OrderOrder) |->
              <<-s_orders[id].priority, -s_orders[id].remaining_quantity>>])

rs_begin_cycle ==
    /\ s_phase = "cycle"
    /\ s_cycle < MaxCycles
    /\ SortedOrders # <<>>
    /\ s_cycle' = s_cycle + 1
    /\ s_pending' = SortedOrders
    /\ s_any_scheduled' = FALSE
    /\ s_phase' = "orders"
    /\ UNCHANGED <<s_tanks, s_pipelines, s_metrics, s_orders, s_conf,
                   s_dispatch, s_attempt, s_base, s_unscheduled>>
    /\ UNCHANGED <<qvars, hvars, avars, bvars, ovars>>

\* rolling_schedule 1001-1006: an order with little left and more than four
\* hours to its deadline is passed over
rs_skip_order ==
    /\ s_phase = "orders"
    /\ s_pending # <<>>
    /\ LET order == s_orders[Head(s_pending)]
       IN  /\ 2 * order.remaining_quantity < 3 * s_conf.min_batch_size
           /\ order.time_window[2] - Now > 4 * 3600
    /\ s_pending' = Tail(s_pending)
    /\ UNCHANGED <<s_tanks, s_pipelines, s_metrics, s_orders, s_conf,
                   s_cycle, s_any_scheduled, s_phase, s_dispatch, s_attempt,
                   s_base, s_unscheduled>>
    /\ UNCHANGED <<qvars, hvars, avars, bvars, ovars>>

\* rolling_schedule 1008-1012
rs_schedule_order ==
    /\ s_phase = "orders"
    /\ s_pending # <<>>
    /\ LET order == s_orders[Head(s_pending)]
       IN  ~(/\ 2 * order.remaining_quantity < 3 * s_conf.min_batch_size
             /\ order.time_window[2] - Now > 4 * 3600)
    /\ schedule_order(Head(s_pending))
    /\ s_base' = deepcopy_apart(s_base,
                    [tanks |-> s_tanks', pipelines |-> s_pipelines',
                     metrics |-> s_metrics', orders |-> s_orders'])
    /\ s_pending' = Tail(s_pending)
    /\ UNCHANGED <<s_conf, s_cycle, s_phase, s_unscheduled>>
    /\ UNCHANGED <<qvars, hvars, avars, bvars, ovars>>

\* rolling_schedule 1014-1016: the pass over the orders is over
rs_end_cycle_again ==
    /\ s_phase = "orders"
    /\ s_pending = <<>>
    /\ s_phase' = "cycle"
    /\ UNCHANGED <<s_tanks, s_pipelines, s_metrics, s_orders, s_conf,
                   s_cycle, s_pending, s_any_scheduled, s_dispatch,
                   s_attempt, s_base, s_unscheduled>>
    /\ UNCHANGED <<qvars, hvars, avars, bvars, ovars>>

rs_end_cycle ==
    /\ s_phase = "orders"
    /\ s_pending = <<>>
    /\ s_phase' = IF s_any_scheduled THEN "cycle" ELSE "collect"
    /\ UNCHANGED <<s_tanks, s_pipelines, s_metrics, s_orders, s_conf,
                   s_cycle, s_pending, s_any_scheduled, s_dispatch,
                   s_attempt, s_base, s_unscheduled>>
    /\ UNCHANGED <<qvars, hvars, avars, bvars, ovars>>

\* rolling_schedule 1022-1031: the orders not fully scheduled, those with
\* something scheduled first and those with nothing scheduled after
Unscheduled ==
    SelectSeq(S_OrderOrder,
        LAMBDA id : /\ ~is_fully_scheduled(s_orders[id])
                    /\ s_orders[id].remaining_quantity
                         < s_orders[id].total_quantity)
    \o SelectSeq(S_OrderOrder,
        LAMBDA id : /\ ~is_fully_scheduled(s_orders[id])
                    /\ ~(s_orders[id].remaining_quantity
                           < s_orders[id].total_quantity))

\* rolling_schedule 1018-1049: the orders nothing was scheduled of get a
\* CONFLICT dispatch order
ConflictOrders ==
    LET infeasible == SelectSeq(S_OrderOrder,
            LAMBDA id : /\ ~is_fully_scheduled(s_orders[id])
                        /\ ~(s_orders[id].remaining_quantity
                               < s_orders[id].total_quantity))
    IN  [i \in DOMAIN infeasible |->
           [order_id |-> infeasible[i],
            oil_type |-> s_orders[infeasible[i]].oil_type,
            quantity |-> s_orders[infeasible[i]].remaining_quantity,
            source_tank_id |-> "", pipeline_path |-> <<>>,
            start_time |-> s_orders[infeasible[i]].time_window[1],
            end_time |-> s_orders[infeasible[i]].time_window[2],
            status |-> "CONFLICT"]]

rs_collect ==
    /\ \/ s_phase = "collect"
       \/ s_phase = "cycle" /\ (s_cycle >= MaxCycles \/ SortedOrders = <<>>)
    /\ s_dispatch' = s_dispatch \o ConflictOrders
    /\ s_unscheduled' = Unscheduled
    /\ s_phase' = "done"
    /\ UNCHANGED <<s_tanks, s_pipelines, s_metrics, s_orders, s_conf,
                   s_cycle, s_pending, s_any_scheduled, s_attempt, s_base>>
    /\ UNCHANGED <<qvars, hvars, avars, bvars, ovars>>

\* framework.TankState (91-98) in a fresh SchedulingState (103-123)
S_Tank(capacity, level) ==
    [capacity |-> capacity, current_level |-> level, safety_min |-> 0,
     compatible_oils |-> {"oilA", DefaultOil}, location |-> "station",
     current_oil |-> IF level > 0 THEN DefaultOil ELSE NoneOil,
     occupied_until |-> 0, last_clean_time |-> 0]

\* framework.PipelineState (100-107)
S_Pipeline(capacity) ==
    [capacity |-> capacity, current_oil |-> NoneOil, occupancy_schedule |-> <<>>]

\* framework.CustomerOrder (40-50)
S_Order(oil_type, quantity, window, priority) ==
    [oil_type |-> oil_type, total_quantity |-> quantity,
     remaining_quantity |-> quantity, time_window |-> window,
     priority |-> priority, target_tank_id |-> "tank2",
     fulfillment_history |-> <<>>]

\* self.max_batch_size (577) and self.oil_compatibility_matrix (843) are
\* read and set nowhere in the repository; they stand here as parameters.
max_batch_size(k, wide) == IF wide THEN 100 * k ELSE 5 * k
oil_compatibility_matrix(compatible) ==
    IF compatible THEN {<<DefaultOil, "oilA">>} ELSE {}

\* The scheduler's parameters and the cases: k = 10 has the default
\* min_batch_size of 50 tons with pipelines of 20 and 50 tons an hour,
\* k = 1 a min_batch_size of 5 tons with pipelines of 2 and 5.  order1 is
\* urgent by its priority; order2 is urgent too, or of priority 5 for the
\* oil the tanks hold, for oilA, or for no oil named.
SInit ==
    \E k \in {1, 10}, wide \in BOOLEAN, matrix \in BOOLEAN,
       c1, c3 \in {2, 5}, q1, q2 \in {5, 10}, w1, w2 \in {0, 3000},
       d2 \in {6000, 14400, 100000},
       kind \in {<<8, "oilA">>, <<5, DefaultOil>>, <<5, "oilA">>, <<5, "">>} :
        /\ s_conf = [min_batch_size |-> 5 * k,
                     max_batch_ratio_tenths |-> 4,
                     max_batch_size |-> max_batch_size(k, wide),
                     oil_compatibility_matrix |->
                        oil_compatibility_matrix(matrix)]
        /\ s_tanks = [t \in SeqToSet(S_TankOrder) |-> S_Tank(10 * k, 10 * k)]
        /\ s_pipelines = [p \in S_PipeIds |->
                            S_Pipeline(IF p = "pipe1" THEN c1 * k
                                       ELSE IF p = "pipe3" THEN c3 * k
                                       ELSE 5 * k)]
        /\ s_orders = [id \in SeqToSet(S_OrderOrder) |->
                         IF id = "order1"
                         THEN S_Order("oilA", q1 * k, <<w1, 14400>>, 9)
                         ELSE S_Order(kind[2], q2 * k, <<w2, d2>>, kind[1])]
        /\ s_metrics = [oil_switch_count |-> 0, high_priority_satisfied |-> 0,
                        total_dispatch_orders |-> 0]
        /\ s_cycle = 0
        /\ s_pending = <<>>
        /\ s_any_scheduled = FALSE
        /\ s_phase = "cycle"
        /\ s_dispatch = <<>>
        /\ s_attempt = Attempt("", "none", FALSE, FALSE)
        /\ s_base = [tanks |-> s_tanks, pipelines |-> s_pipelines,
                     metrics |-> s_metrics, orders |-> s_orders]
        /\ s_unscheduled = <<>>

SNext ==
    \/ rs_begin_cycle
    \/ rs_skip_order
    \/ rs_schedule_order
    \/ rs_end_cycle
    \/ rs_collect

SchedInit == SInit /\ QRest /\ HRest /\ ARest /\ BRest /\ ORest

SpecSched == SchedInit /\ [][SNext]_vars

\* rolling_schedule is one call on one thread: as long as it has a step to
\* take it takes one.  rs_phase_step and rs_order_step are what the steps
\* of SNext do to the position of the call (the phase, and the orders left
\* in the pass); one of them can be taken exactly where the call has not
\* returned.
rs_phase_step ==
    \/ s_phase = "cycle" /\ s_phase' \in {"orders", "done"}
    \/ s_phase = "orders" /\ s_pending = <<>>
          /\ s_phase' \in {"cycle", "collect"}
    \/ s_phase = "collect" /\ s_phase' = "done"

rs_order_step ==
    s_phase = "orders" /\ s_pending # <<>> /\ s_pending' = Tail(s_pending)

SchedFairInit == SInit /\ QRest /\ HRest /\ ARest /\ BRest /\ ORest

SpecSchedFair ==
    /\ SchedFairInit
    /\ [][SNext]_vars
    /\ WF_s_phase(rs_phase_step)
    /\ WF_s_pending(rs_order_step)

Overlap(a, b) == a.start_time < b.end_time /\ b.start_time < a.end_time

\* C6: no pipeline's occupancy_schedule holds two reservations whose
\* half-open intervals [start_time, end_time) overlap.
C6_NoOverlappingReservations ==
    \A p \in DOMAIN s_pipelines :
        \A i, j \in DOMAIN s_pipelines[p].occupancy_schedule :
            i # j => ~Overlap(s_pipelines[p].occupancy_schedule[i],
                              s_pipelines[p].occupancy_schedule[j])

Batches(order_id) ==
    {i \in DOMAIN s_dispatch : /\ s_dispatch[i].order_id = order_id
                               /\ s_dispatch[i].status # "CONFLICT"}

Conflicts(order_id) ==
    {i \in DOMAIN s_dispatch : /\ s_dispatch[i].order_id = order_id
                               /\ s_dispatch[i].status = "CONFLICT"}

TimesListed(order_id) ==
    Cardinality({i \in DOMAIN s_unscheduled : s_unscheduled[i] = order_id})

\* C25: when rolling_schedule has returned, every input order is in exactly
\* one of three cases: fully scheduled and not in the unscheduled list;
\* partially scheduled (0 < remaining < total) and once in the list; or
\* with no batch placed, once in the list, and with exactly one CONFLICT
\* dispatch order of empty source and empty path over its whole time
\* window.  No order with a batch emitted has a CONFLICT dispatch order.
C25_EveryOrderAccountedOnce ==
    s_phase = "done" =>
        \A id \in SeqToSet(S_OrderOrder) :
            LET order == s_orders[id]
                full == /\ is_fully_scheduled(order)
                        /\ TimesListed(id) = 0
                partial == /\ 0 < order.remaining_quantity
                           /\ order.remaining_quantity < order.total_quantity
                           /\ TimesListed(id) = 1
                none == /\ Batches(id) = {}
                        /\ TimesListed(id) = 1
                        /\ Cardinality(Conflicts(id)) = 1
                        /\ \A i \in Conflicts(id) :
                              /\ s_dispatch[i].source_tank_id = ""
                              /\ s_dispatch[i].pipeline_path = <<>>
                              /\ s_dispatch[i].start_time = order.time_window[1]
                              /\ s_dispatch[i].end_time = order.time_window[2]
            IN  /\ Cardinality({c \in {"full", "partial", "none"} :
                       \/ c = "full" /\ full
                       \/ c = "partial" /\ partial
                       \/ c = "none" /\ none}) = 1
                /\ Batches(id) # {} => Conflicts(id) = {}

DecisionOrder(order, unnamed) ==
    LET utilization == calculate_resource_utilization
    IN  IF TakesDeadlineRule(order) THEN "deadline"
        ELSE IF (unnamed /\ order.oil_type = "") \/ has_compatible_tanks(order)
        THEN "compatibility"
        ELSE IF 10 * utilization.num > 8 * utilization.den
        THEN "resource_balancing"
        ELSE "processing_time"

C30_NothingOnlyAfterFallback ==
    (s_attempt.rule # "none" /\ ~s_attempt.placed) => s_attempt.fallback

\* the key rolling_schedule sorts by, highest first (988-992)
AttemptKey(order_id) ==
    <<-s_orders[order_id].priority, -s_orders[order_id].remaining_quantity>>

\* the last dispatch order emitted has its interval reserved on every
\* pipeline of its path
LastIsReserved(dispatch, pipelines) ==
    LET emitted == dispatch[Len(dispatch)]
    IN  \A i \in DOMAIN emitted.pipeline_path :
            \E k \in DOMAIN pipelines[emitted.pipeline_path[i]].occupancy_schedule :
                LET occ == pipelines[emitted.pipeline_path[i]].occupancy_schedule[k]
                IN  /\ occ.start_time = emitted.start_time
                    /\ occ.end_time = emitted.end_time
                    /\ occ.quantity = emitted.quantity

\* C33: within a cycle the order attempted comes before the orders still to
\* be attempted in descending (priority, remaining quantity), and a
\* placement is in the state the later attempts of the cycle see: the
\* interval of the dispatch order emitted is reserved on its path.
C33_AttemptsInPriorityOrderOnSharedState ==
    [][rs_schedule_order =>
          /\ \A j \in 2 .. Len(s_pending) :
                ~KeyLess(AttemptKey(s_pending[j]), AttemptKey(Head(s_pending)))
          /\ s_attempt'.placed => LastIsReserved(s_dispatch', s_pipelines')]_vars

RECURSIVE QuantityOf(_)
QuantityOf(dispatch) ==
    IF dispatch = <<>> THEN 0
    ELSE Head(dispatch).quantity + QuantityOf(Tail(dispatch))

\* the quantity of the dispatch orders returned for the order, the CONFLICT
\* ones apart
QuantityPlaced(order_id) ==
    QuantityOf(SelectSeq(s_dispatch,
        LAMBDA d : d.order_id = order_id /\ d.status # "CONFLICT"))

\* C38: when rolling_schedule has returned, the quantities of the dispatch
\* orders returned for an order, the CONFLICT ones apart, sum to at most the
\* order's total quantity and to exactly total less remaining quantity.
C38_BatchesSumToScheduledQuantity ==
    s_phase = "done" =>
        \A id \in SeqToSet(S_OrderOrder) :
            /\ QuantityPlaced(id) <= s_orders[id].total_quantity
            /\ QuantityPlaced(id) = s_orders[id].total_quantity
                                      - s_orders[id].remaining_quantity

\* C39: every dispatch order emitted, the CONFLICT ones apart, starts no
\* earlier than its order's earliest start and ends no later than its
\* deadline.
C39_BatchesInsideTimeWindow ==
    \A i \in DOMAIN s_dispatch :
        s_dispatch[i].status # "CONFLICT" =>
            LET window == s_orders[s_dispatch[i].order_id].time_window
            IN  /\ s_dispatch[i].start_time >= window[1]
                /\ s_dispatch[i].end_time <= window[2]

\* the interval a batch of the quantity occupies from the start on the
\* path: calculate_duration (267-271), as the reservation is made (590-591)
Requested(quantity, path, start_time) ==
    [start_time |-> start_time,
     end_time |-> start_time + DurationSeconds(quantity, path)]

\* C28: in every state the scheduler reaches, for a batch of min_batch_size
\* or twice that from either tank to tank2 at a start between 0 and two
\* hours, find_feasible_path returns a path only if every pipeline on it
\* has a capacity of at least the quantity and the batch's interval
\* [start, start + duration) overlaps no reservation of any of them; and it
\* returns no path when every route has a pipeline of less capacity.
C28_FeasiblePathHasRoomAndCapacity ==
    \A source \in SeqToSet(S_TankOrder), n \in {1, 2}, start \in {0, 3600, 7200} :
        LET quantity == n * s_conf.min_batch_size
            result == find_feasible_path(source, "tank2", "oilA", quantity, start)
            routes == get_all_paths(source, "tank2")
        IN  /\ result.found =>
                \A i \in DOMAIN result.path :
                    LET pipeline == s_pipelines[result.path[i]]
                    IN  /\ pipeline.capacity >= quantity
                        /\ \A k \in DOMAIN pipeline.occupancy_schedule :
                              ~Overlap(Requested(quantity, result.path, start),
                                       pipeline.occupancy_schedule[k])
            /\ (\A r \in DOMAIN routes :
                   \E i \in DOMAIN routes[r] :
                      s_pipelines[routes[r][i]].capacity < quantity)
                 => ~result.found


(***************************************************************************)
(* Single applications of State.apply_dispatch_order (src/state.py) to     *)
(* states of three tanks and two pipelines, with orders between present    *)
(* and absent tanks along present and absent pipelines.  A caller may go   *)
(* on with the State it was handed, as _recalculate_state_chain does.      *)
(***************************************************************************)
MaxApplied == 2
A_TankIds == {"T1", "T2", "T3"}
A_PipeIds == {"P1", "P2"}
AbsentTank == "TX"
AbsentPipe == "PX"

\* A data_class.Pipeline (216-226) as a State holds it.  The class declares
\* neither occupancy_schedule nor current_oil: deserialize_state (404-414)
\* sets them, and a pipeline without the attribute has no reservation.
A_PipeRec(oil, schedule) ==
    [current_oil |-> oil, occupancy_schedule |-> schedule]

\* State.__init__ (9-42) on the tanks and pipelines of a site.
A_States ==
    { [tanks |-> [t \in A_TankIds |->
                    CASE t = "T1" -> TankRec(i1, o1, 1, 8)
                      [] t = "T2" -> TankRec(2, o2, 1, 8)
                      [] OTHER    -> TankRec(3, "oilB", 1, 8)],
       pipelines |-> [p \in A_PipeIds |-> A_PipeRec(NoneOil, <<>>)],
       oil_switch_count |-> 0,
       total_dispatch_orders |-> 0] :
        i1 \in {3, 5}, o1 \in {NoOil, "oilA"}, o2 \in {NoOil, "oilA", "oilB"} }

\* order_data: the __dict__ of a data_class.DispatchOrder (152-166)
A_Orders ==
    { Timed(OrderRec("a", oil, vol, src, tgt, path), 10, 20) :
        oil \in {"oilA", "oilB"}, vol \in {1, 4},
        src \in {"T1", "T2", AbsentTank}, tgt \in {"T1", "T2", AbsentTank},
        path \in {<<>>, <<"P1">>, <<"P1", AbsentPipe>>, NonePath} }

Returned(ret, state) == [ret |-> ret, state |-> state]

AInit ==
    /\ a_self \in A_States
    /\ a_order = <<>>
    /\ a_result = Returned("None", <<>>)

\* new_state = self.apply_dispatch_order(order_data), one call at a time
a_apply(order_data) ==
    /\ a_result.ret = "None"
    /\ a_self.total_dispatch_orders < MaxApplied
    /\ a_order' = order_data
    /\ a_result' = IF ApplyRaises(order_data)
                   THEN Returned("TypeError", <<>>)
                   ELSE Returned("State",
                                 apply_dispatch_order(a_self, order_data))
    /\ UNCHANGED a_self
    /\ UNCHANGED <<qvars, hvars, svars, bvars, ovars>>

\* current_state = new_state (dispatch_order_queue.py 323)
a_continue ==
    /\ a_result.ret = "State"
    /\ a_self' = a_result.state
    /\ a_order' = <<>>
    /\ a_result' = Returned("None", <<>>)
    /\ UNCHANGED <<qvars, hvars, svars, bvars, ovars>>

ANext ==
    \/ \E o \in A_Orders : a_apply(o)
    \/ a_continue

ApplyInit == AInit /\ QRest /\ HRest /\ SRest /\ BRest /\ ORest

SpecApply == ApplyInit /\ [][ANext]_vars

\* the last call returned a State
Applied == a_result.ret = "State"

\* C11's case: distinct source and target, both present, and the source
\* holds the volume above its minimum.
TransferFits ==
    /\ Applied
    /\ a_order.source_tank_id # a_order.target_tank_id
    /\ a_order.source_tank_id \in DOMAIN a_self.tanks
    /\ a_order.target_tank_id \in DOMAIN a_self.tanks
    /\ Fits(a_self, a_order)

\* C11: for an order between two distinct present tanks whose volume the
\* source holds above its minimum, the returned state has the source
\* inventory lower by exactly the volume, the target inventory higher by
\* exactly the volume, and every other tank's inventory unchanged.
C11_TransferMovesExactlyTheVolume ==
    TransferFits =>
        \A t \in DOMAIN a_self.tanks :
            a_result.state.tanks[t].inventory =
                a_self.tanks[t].inventory
                + (IF t = a_order.target_tank_id
                   THEN a_order.required_volume ELSE 0)
                - (IF t = a_order.source_tank_id
                   THEN a_order.required_volume ELSE 0)

\* C11's case happened: 4 units moved from T1 (5 -> 1) into T2 (2 -> 6),
\* with T3 in the state.
C11_Witness ==
    /\ TransferFits
    /\ a_order.required_volume = 4
    /\ a_order.source_tank_id = "T1" /\ a_order.target_tank_id = "T2"
    /\ a_self.tanks["T1"].inventory = 5
    /\ a_result.state.tanks["T1"].inventory = 1
    /\ a_result.state.tanks["T2"].inventory = 6
    /\ "T3" \in DOMAIN a_result.state.tanks

\* the source tank's oil type before the order is set and is not the order's
SwitchOnSource ==
    /\ a_order.source_tank_id \in DOMAIN a_self.tanks
    /\ a_self.tanks[a_order.source_tank_id].oil_type # NoOil
    /\ a_self.tanks[a_order.source_tank_id].oil_type # a_order.oil_type

\* C12: the returned state's oil_switch_count is the receiver's plus 1 when
\* the source tank's oil type before the order is set and differs from the
\* order's oil type, and equal to the receiver's otherwise.
C12_OilSwitchCountedOnce ==
    Applied =>
        a_result.state.oil_switch_count =
            a_self.oil_switch_count + (IF SwitchOnSource THEN 1 ELSE 0)

\* C14: after an order whose source and target tanks exist, the source
\* tank's and the target tank's oil type in the returned state are the
\* order's oil type, whatever they were before, set or unset.
C14_BothTanksTakeTheOrdersOil ==
    (/\ Applied
     /\ a_order.source_tank_id \in DOMAIN a_self.tanks
     /\ a_order.target_tank_id \in DOMAIN a_self.tanks) =>
        /\ a_result.state.tanks[a_order.source_tank_id].oil_type
             = a_order.oil_type
        /\ a_result.state.tanks[a_order.target_tank_id].oil_type
             = a_order.oil_type

\* the reservation an order asks of each pipeline of its path
ReservationOf(o) ==
    [start_time |-> o.start_time, end_time |-> o.end_time,
     oil_type |-> o.oil_type, required_volume |-> o.required_volume]

OnPath(p, o) == \E i \in DOMAIN o.pipeline_path : o.pipeline_path[i] = p

\* C15: in the returned state every pipeline of the order's path that the
\* state has holds one more reservation, for [start, end) with the order's
\* oil type and volume, and has the order's oil type as its current oil;
\* every other pipeline is as it was.
C15_PathPipelinesAreReserved ==
    Applied =>
        \A p \in DOMAIN a_self.pipelines :
            IF OnPath(p, a_order)
            THEN /\ a_result.state.pipelines[p].occupancy_schedule
                      = Append(a_self.pipelines[p].occupancy_schedule,
                               ReservationOf(a_order))
                 /\ a_result.state.pipelines[p].current_oil = a_order.oil_type
            ELSE a_result.state.pipelines[p] = a_self.pipelines[p]


(***************************************************************************)
(* The batch scheduler's split_order.  The repository holds no definition  *)
(* of it; it is modelled from the specification's section 4.4.  Volumes    *)
(* are counted in half tons, so that half of a whole number of tons is     *)
(* exact, as it is in floating point.                                      *)
(***************************************************************************)
MaxVolume == 8
MaxMinBatch == 3

Tons(n) == 2 * n

\* data_class.CustomerOrder (90-109)
B_Order(required, dispatched) ==
    [required_volume |-> Tons(required),
     dispatched_volume |-> Tons(dispatched)]

\* the required volume less the dispatched one, below 0 too
required_less_dispatched(order) ==
    order.required_volume - order.dispatched_volume

\* data_class.CustomerOrder.calculate_undispatched_volume (117-119)
calculate_undispatched_volume(order) ==
    Max(0, order.required_volume - order.dispatched_volume)

\* a DispatchOrder draft of the volume
Draft(volume) == [volume |-> volume, status |-> "DRAFT"]

\* 50% of the volume
Half(volume) == volume \div 2

\* split_order: one draft of the whole undispatched volume if it is at
\* most twice the minimum batch size, else two drafts of half of it each
split_order(order, min_batch) ==
    LET undispatched == calculate_undispatched_volume(order)
    IN  IF undispatched <= 2 * min_batch
        THEN <<Draft(undispatched)>>
        ELSE <<Draft(Half(undispatched)), Draft(Half(undispatched))>>

BInit ==
    \E required, dispatched \in 0..MaxVolume, min_batch \in 1..MaxMinBatch :
        /\ b_order = B_Order(required, dispatched)
        /\ b_min_batch = Tons(min_batch)
        /\ b_result = [op |-> "created", ret |-> <<>>]

b_split_order ==
    /\ b_result.op = "created"
    /\ b_result' = [op |-> "split_order",
                    ret |-> split_order(b_order, b_min_batch)]
    /\ UNCHANGED <<b_order, b_min_batch>>
    /\ UNCHANGED <<qvars, hvars, svars, avars, ovars>>

BNext == b_split_order

SplitInit == BInit /\ QRest /\ HRest /\ SRest /\ ARest /\ ORest

SpecSplit == SplitInit /\ [][BNext]_vars

RECURSIVE SumOfVolumes(_)
SumOfVolumes(drafts) ==
    IF drafts = <<>> THEN 0
    ELSE Head(drafts).volume + SumOfVolumes(Tail(drafts))

\* C27: the volumes of the drafts split_order produces sum to the order's
\* undispatched volume (required - dispatched, never negative); there is
\* exactly one draft, of that whole volume, when it is at most twice the
\* minimum batch size, and exactly two drafts of half of it each otherwise.
C27_SplitConservesVolume ==
    b_result.op = "split_order" =>
        LET drafts == b_result.ret
            required == b_order.required_volume
            dispatched == b_order.dispatched_volume
            undispatched == IF required > dispatched
                            THEN required - dispatched ELSE 0
        IN  /\ SumOfVolumes(drafts) = undispatched
            /\ IF undispatched <= 2 * b_min_batch
               THEN Len(drafts) = 1 /\ drafts[1].volume = undispatched
               ELSE /\ Len(drafts) = 2
                    /\ \A i \in 1..2 : 2 * drafts[i].volume = undispatched

\* an order of which part is dispatched was split in two drafts that are
\* not whole numbers of tons
C27_Witness ==
    /\ b_result.op = "split_order"
    /\ b_order.dispatched_volume > 0
    /\ Len(b_result.ret) = 2
    /\ b_result.ret[1].volume % 2 = 1


(***************************************************************************)
(* The dispatcher (src/_dispatcher.py).  A Dispatcher files every order    *)
(* of all_orders under one of four maps, by its times and the dispatcher's *)
(* clock; the four maps hold the objects of all_orders, so only their keys *)
(* are kept here.                                                          *)
(***************************************************************************)
DispatcherTimes == {10, 20, 30}

\* order_data: a dict with an id (which may be missing or empty) and times
OrderData(id, start, end) ==
    [dispatch_order_id |-> id, start_time |-> start, end_time |-> end,
     status |-> "DRAFT"]

DispatcherOrders ==
    {OrderData(id, t[1], t[2]) :
        id \in OrderIds \cup {""},
        t \in {<<10, 20>>, <<20, 30>>, <<20, 10>>, <<30, 30>>}}

\* add_order 44-54: the map an order is filed under
Category(order_data, current_time) ==
    IF order_data.end_time < current_time THEN "completed"
    ELSE IF /\ order_data.start_time <= current_time
            /\ current_time <= order_data.end_time THEN "running"
    ELSE IF order_data.start_time > current_time THEN "pending"
    ELSE "conflict"

\* the four maps after _remove_from_all_categories(order_id) (74-79) and
\* `category[order_id] = order_data` for the named category ("" for none)
Filed(order_id, category) ==
    /\ d_completed_orders' =
          IF category = "completed" THEN d_completed_orders \cup {order_id}
          ELSE d_completed_orders \ {order_id}
    /\ d_running_orders' =
          IF category = "running" THEN d_running_orders \cup {order_id}
          ELSE d_running_orders \ {order_id}
    /\ d_pending_orders' =
          IF category = "pending" THEN d_pending_orders \cup {order_id}
          ELSE d_pending_orders \ {order_id}
    /\ d_conflict_orders' =
          IF category = "conflict" THEN d_conflict_orders \cup {order_id}
          ELSE d_conflict_orders \ {order_id}

KeptMaps ==
    UNCHANGED <<d_all_orders, d_completed_orders, d_running_orders,
                d_pending_orders, d_conflict_orders>>

\* add_order (25-54): the body, shared with update_order
AddOrder(op, order_data) ==
    LET order_id == order_data.dispatch_order_id
    IN  IF order_id = "" \/ order_id \in DOMAIN d_all_orders
        THEN d_last' = Call(op, "ValueError") /\ UNCHANGED d_all_orders
        ELSE /\ d_all_orders' = DictSet(d_all_orders, order_id, order_data)
             /\ d_last' = Call(op, "None")

Dispatcher_add_order(order_data) ==
    /\ UNCHANGED <<qvars, hvars, svars, avars, bvars, tvars, cvars>>
    /\ UNCHANGED d_current_time
    /\ AddOrder("add_order", order_data)
    /\ LET order_id == order_data.dispatch_order_id
       IN  IF order_id = "" \/ order_id \in DOMAIN d_all_orders
           THEN UNCHANGED <<d_completed_orders, d_running_orders,
                            d_pending_orders, d_conflict_orders>>
           ELSE Filed(order_id, Category(order_data, d_current_time))

\* update_order (56-63): the order is taken out of the four maps, not out
\* of all_orders, and add_order is called with the new data under the id
Dispatcher_update_order(order_id, new_order_data) ==
    /\ UNCHANGED <<qvars, hvars, svars, avars, bvars, tvars, cvars>>
    /\ UNCHANGED d_current_time
    /\ LET order_data ==
              [new_order_data EXCEPT !.dispatch_order_id = order_id]
       IN  /\ AddOrder("update_order", order_data)
           /\ IF order_id = "" \/ order_id \in DOMAIN d_all_orders
              THEN Filed(order_id, "")
              ELSE Filed(order_id, Category(order_data, d_current_time))

\* remove_order (65-72)
Dispatcher_remove_order(order_id) ==
    /\ UNCHANGED <<qvars, hvars, svars, avars, bvars, tvars, cvars>>
    /\ UNCHANGED d_current_time
    /\ Filed(order_id, "")
    /\ d_all_orders' = IF order_id \in DOMAIN d_all_orders
                       THEN DictDel(d_all_orders, order_id)
                       ELSE d_all_orders
    /\ d_last' = Call("remove_order", "None")

\* move_order_to_completed / running / pending / conflict (105-157)
move_order_to(category, order_id) ==
    /\ UNCHANGED <<qvars, hvars, svars, avars, bvars, tvars, cvars>>
    /\ UNCHANGED d_current_time
    /\ IF order_id \notin DOMAIN d_all_orders
       THEN /\ d_last' = Call("move_order_to_" \o category, "ValueError")
            /\ KeptMaps
       ELSE /\ Filed(order_id, category)
            /\ d_all_orders' =
                  [d_all_orders EXCEPT
                     ![order_id].status =
                        CASE category = "completed" -> "COMPLETED"
                          [] category = "running" -> "RUNNING"
                          [] category = "pending" -> "PENDING"
                          [] OTHER -> "CONFLICT",
                     ![order_id].end_time =
                        IF category = "completed" THEN d_current_time ELSE @]
            /\ d_last' = Call("move_order_to_" \o category, "None")

\* update_current_time (223-256): running orders that have ended become
\* completed, pending orders that have started become running or completed
update_current_time(new_time) ==
    /\ UNCHANGED <<qvars, hvars, svars, avars, bvars, tvars, cvars>>
    /\ d_current_time' = new_time
    /\ LET ended == {id \in d_running_orders :
                        new_time > d_all_orders[id].end_time}
           started == {id \in d_pending_orders :
                        /\ d_all_orders[id].start_time <= new_time
                        /\ new_time <= d_all_orders[id].end_time}
           passed == {id \in d_pending_orders \ started :
                        new_time > d_all_orders[id].end_time}
           moved == ended \cup started \cup passed
       IN  /\ d_completed_orders' =
                 (d_completed_orders \ moved) \cup ended \cup passed
           /\ d_running_orders' = (d_running_orders \ moved) \cup started
           /\ d_pending_orders' = d_pending_orders \ moved
           /\ d_conflict_orders' = d_conflict_orders \ moved
           /\ d_all_orders' =
                 [id \in DOMAIN d_all_orders |->
                    IF id \in ended \cup passed
                    THEN [d_all_orders[id] EXCEPT !.status = "COMPLETED"]
                    ELSE IF id \in started
                    THEN [d_all_orders[id] EXCEPT !.status = "RUNNING"]
                    ELSE d_all_orders[id]]
    /\ d_last' = Call("update_current_time", "None")

\* Dispatcher() (8-23), without initial orders
DInit ==
    /\ d_current_time \in DispatcherTimes
    /\ d_all_orders = EmptyDict
    /\ d_completed_orders = {} /\ d_running_orders = {}
    /\ d_pending_orders = {} /\ d_conflict_orders = {}
    /\ d_last = Call("__init__", "None")

DispatcherInit ==
    DInit /\ QRest /\ HRest /\ SRest /\ ARest /\ BRest /\ TRest /\ CRest

DispatcherNext ==
    \/ \E o \in DispatcherOrders : Dispatcher_add_order(o)
    \/ \E id \in OrderIds, o \in DispatcherOrders :
          Dispatcher_update_order(id, o)
    \/ \E id \in OrderIds : Dispatcher_remove_order(id)
    \/ \E id \in OrderIds,
          c \in {"completed", "running", "pending", "conflict"} :
          move_order_to(c, id)
    \/ \E t \in DispatcherTimes : update_current_time(t)

SpecDispatcher == DispatcherInit /\ [][DispatcherNext]_vars

\* every id of all_orders is a key of exactly one of the four maps, and
\* every key of a map is an id of all_orders
FiledExactlyOnce ==
    LET maps == <<d_completed_orders, d_running_orders, d_pending_orders,
                  d_conflict_orders>>
    IN  /\ UNION {maps[i] : i \in 1..4} = DOMAIN d_all_orders
        /\ \A i, j \in 1..4 : i # j => maps[i] \cap maps[j] = {}

\* C36: after any sequence of Dispatcher operations every id of all_orders
\* is in exactly one of the completed, running, pending and conflict maps
\* and every id of those maps is in all_orders; an operation that raises
\* leaves the five maps as they were.
C36_OrdersFiledExactlyOnce ==
    /\ []FiledExactlyOnce
    /\ [][d_last'.ret = "ValueError" => KeptMaps]_vars


(***************************************************************************)
(* Reservations on a tank (src/data_class.py 10-49).  inventory,           *)
(* min_safe_level and the volume of a reservation are Python floats: a     *)
(* difference of two of them is the exact difference rounded to the        *)
(* nearest float, ties to the even significand.  A Python float keeps 53   *)
(* significant bits; the floats here keep MantissaBits of them and are     *)
(* rounded the same way.  Quantities are counted in units of the smallest  *)
(* float considered.                                                       *)
(***************************************************************************)
MantissaBits == 3
MaxUnits == 16

RECURSIVE BitLength(_)
BitLength(n) == IF n = 0 THEN 0 ELSE 1 + BitLength(n \div 2)

RECURSIVE TwoToThe(_)
TwoToThe(k) == IF k = 0 THEN 1 ELSE 2 * TwoToThe(k - 1)

\* the float nearest to the number n >= 0, ties to the even significand
RoundToFloat(n) ==
    IF BitLength(n) <= MantissaBits THEN n
    ELSE LET ulp == TwoToThe(BitLength(n) - MantissaBits)
             below == (n \div ulp) * ulp
         IN  IF 2 * (n - below) < ulp THEN below
             ELSE IF 2 * (n - below) > ulp THEN below + ulp
             ELSE IF (below \div ulp) % 2 = 0 THEN below
             ELSE below + ulp

\* x - y on floats
FloatMinus(x, y) ==
    IF x >= y THEN RoundToFloat(x - y) ELSE 0 - RoundToFloat(y - x)

\* the non-negative floats up to MaxUnits
Floats == {n \in 0..MaxUnits : RoundToFloat(n) = n}

\* can_supply (32-38)
can_supply(tank, required_volume) ==
    /\ tank.status = "AVAILABLE"
    /\ ~(FloatMinus(tank.inventory, required_volume) < tank.min_safe_level)

\* reserve (40-45)
reserve(volume) ==
    /\ UNCHANGED <<qvars, hvars, svars, avars, bvars, dvars, cvars>>
    /\ IF volume > FloatMinus(t_tank.inventory, t_tank.min_safe_level)
       THEN /\ t_last' = [op |-> "reserve", ret |-> "ValueError",
                          volume |-> volume]
            /\ UNCHANGED t_tank
       ELSE /\ t_tank' = [t_tank EXCEPT
                            !.inventory = FloatMinus(@, volume),
                            !.status = "RESERVED"]
            /\ t_last' = [op |-> "reserve", ret |-> "None",
                          volume |-> volume]

\* release (47-49)
release ==
    /\ UNCHANGED <<qvars, hvars, svars, avars, bvars, dvars, cvars>>
    /\ t_tank' = [t_tank EXCEPT !.status = "AVAILABLE"]
    /\ t_last' = Call("release", "None")

\* a caller asking can_supply: nothing changes but the answer
ask_can_supply(required_volume) ==
    /\ UNCHANGED <<qvars, hvars, svars, avars, bvars, dvars, cvars>>
    /\ UNCHANGED t_tank
    /\ t_last' = [op |-> "can_supply",
                  ret |-> can_supply(t_tank, required_volume),
                  volume |-> required_volume]

\* a Tank as constructed, AVAILABLE, at or above its minimum
TInit ==
    /\ t_tank \in {tank \in [inventory : Floats, min_safe_level : Floats,
                              status : {"AVAILABLE"}] :
                      tank.min_safe_level <= tank.inventory}
    /\ t_last = Call("__init__", "None")

TankInit ==
    TInit /\ QRest /\ HRest /\ SRest /\ ARest /\ BRest /\ DRest /\ CRest

TankNext ==
    \/ \E volume \in Floats : reserve(volume)
    \/ release
    \/ \E volume \in Floats : ask_can_supply(volume)

SpecTank == TankInit /\ [][TankNext]_vars

\* C32: reserve(volume) raises and leaves inventory and status as they
\* were when volume exceeds inventory - min_safe_level; otherwise it lowers
\* the inventory by exactly volume and sets the status to RESERVED (the
\* differences being differences of floats); after
\* any sequence of reserve and release calls with non-negative volumes on
\* a tank that started at or above its minimum, the inventory is at or
\* above min_safe_level.
C32_ReserveKeepsMinimum ==
    /\ [](t_tank # <<>> => t_tank.inventory >= t_tank.min_safe_level)
    /\ [][\A volume \in Floats :
            reserve(volume) =>
               IF volume > FloatMinus(t_tank.inventory,
                                      t_tank.min_safe_level)
               THEN t_last'.ret = "ValueError" /\ t_tank' = t_tank
               ELSE /\ t_last'.ret = "None"
                    /\ t_tank'.inventory
                         = FloatMinus(t_tank.inventory, volume)
                    /\ t_tank'.status = "RESERVED"]_vars


(***************************************************************************)
(* Undispatched volumes.  data_class.CustomerOrder (90-123) stores         *)
(* required_volume, dispatched_volume and undispatched_volume as three     *)
(* fields of a dataclass; framework.CustomerOrder (39-64) stores the       *)
(* remaining quantity and the history of its partial fulfilments.          *)
(***************************************************************************)
MaxOrderVolume == 3
MaxFulfilments == 3

OrderVolumes == 0..MaxOrderVolume

\* `order.dispatched_volume = volume`: the dataclass has no setter, the
\* other fields stay as they are
set_dispatched_volume(volume) ==
    /\ UNCHANGED <<qvars, hvars, svars, avars, bvars, dvars, tvars>>
    /\ c_order' = [c_order EXCEPT !.dispatched_volume = volume]
    /\ c_last' = [op |-> "dispatched_volume", ret |-> volume]
    /\ UNCHANGED c_remaining

\* update_undispatched_volume (121-123)
update_undispatched_volume ==
    /\ UNCHANGED <<qvars, hvars, svars, avars, bvars, dvars, tvars>>
    /\ c_order' = [c_order EXCEPT
                     !.undispatched_volume =
                        calculate_undispatched_volume(c_order)]
    /\ c_last' = Call("update_undispatched_volume", "None")
    /\ UNCHANGED c_remaining

\* framework.CustomerOrder.mark_partial_fulfillment (57-64)
mark_partial_fulfillment(quantity) ==
    /\ UNCHANGED <<qvars, hvars, svars, avars, bvars, dvars, tvars>>
    /\ Len(c_remaining.fulfillment_history) < MaxFulfilments
    /\ c_remaining' =
          [c_remaining EXCEPT
             !.remaining_quantity = Max(0, @ - quantity),
             !.fulfillment_history = Append(@, quantity)]
    /\ c_last' = [op |-> "mark_partial_fulfillment", ret |-> quantity]
    /\ UNCHANGED c_order

\* The orders as constructed: a data_class.CustomerOrder with the three
\* volumes its caller passes, here consistent ones, and a
\* framework.CustomerOrder (41-51) with nothing fulfilled.
CInit ==
    /\ c_order \in {[required_volume |-> r, dispatched_volume |-> d,
                     undispatched_volume |-> Max(0, r - d)] :
                       r \in OrderVolumes, d \in OrderVolumes}
    /\ c_remaining \in {[total_quantity |-> q, remaining_quantity |-> q,
                         fulfillment_history |-> <<>>] : q \in OrderVolumes}
    /\ c_last = Call("__init__", "None")

CustomerOrderInit ==
    CInit /\ QRest /\ HRest /\ SRest /\ ARest /\ BRest /\ DRest /\ TRest

CustomerOrderNext ==
    \/ \E v \in OrderVolumes : set_dispatched_volume(v)
    \/ update_undispatched_volume
    \/ \E q \in OrderVolumes : mark_partial_fulfillment(q)

SpecCustomerOrder == CustomerOrderInit /\ [][CustomerOrderNext]_vars

RECURSIVE SumOfQuantities(_)
SumOfQuantities(history) ==
    IF history = <<>> THEN 0
    ELSE Head(history) + SumOfQuantities(Tail(history))

\* C31: a customer order's undispatched volume is never negative and
\* equals max(0, required - dispatched) after any sequence of partial
\* fulfilments and of changes to the dispatched volume.
C31_UndispatchedIsRequiredLessDispatched ==
    c_order # <<>> =>
        /\ c_order.undispatched_volume >= 0
        /\ c_order.undispatched_volume
             = Max(0, c_order.required_volume - c_order.dispatched_volume)
        /\ c_remaining.remaining_quantity >= 0
        /\ c_remaining.remaining_quantity
             = Max(0, c_remaining.total_quantity
                        - SumOfQuantities(c_remaining.fulfillment_history))

=============================================================================
